---- MODULE Spec2Model ----
(***************************************************************************)
(* Display pipeline of the HoloClawd / HelloCubic open firmware:           *)
(*   - ConfigManager's panel configuration and its "Safe" getters,         *)
(*   - the SPI transport adaptor (HelloCubicSPIBus) and its chip select,   *)
(*   - DisplayManager's lazy panel bring-up (lcdEnsureInit), modelled as   *)
(*     a call frame that is suspended at every delay()/yield() of the      *)
(*     source, with other public calls allowed at those points,            *)
(*   - the guarded drawing primitives and the unguarded drawTextWrapped,   *)
(*   - the greedy word wrap (lcdWrapText) as a pure operator.              *)
(***************************************************************************)
EXTENDS Integers, Sequences, FiniteSets, TLC

VARIABLES
    cfg,                \* ConfigManager fields after load()
    g_lcd,              \* Arduino_GFX* g_lcd: NULL or the panel object
    g_lcdBus,           \* Arduino_DataBus* g_lcdBus: NULL or the bus object
    g_lcdReady,
    g_lcdInitializing,
    g_lcdInitOk,
    g_lcdInitAttempts,
    initStack,          \* suspended lcdEnsureInit activations, innermost last
    pins,               \* electrical level of every GPIO
    gpioLog,            \* every digitalWrite, in order: [pin, level, by]
    busLog,             \* every call made on the transport adaptor, in order
    panelWrites,        \* every drawing call that reached the panel handle
    fault,              \* the process trapped (null panel handle dereferenced)
    lastCall,           \* the last public call and what it did
    wrapIn,             \* arguments of the last lcdWrapText call
    wrapOut,            \* its result
    fnIn,               \* arguments of the last hexToRgb565 / get*Rect /
                        \* drawTextWrapped call examined on its own
    fnOut,              \* what that call returned or sent to the panel
    gif                 \* the GIF decoder s_gif and the playGifFullScreen
                        \* activation

vars == <<cfg, g_lcd, g_lcdBus, g_lcdReady, g_lcdInitializing, g_lcdInitOk,
          g_lcdInitAttempts, initStack, pins, gpioLog, busLog, panelWrites,
          fault, lastCall, wrapIn, wrapOut, fnIn, fnOut, gif>>

dmVars == <<g_lcd, g_lcdBus, g_lcdReady, g_lcdInitializing, g_lcdInitOk,
            g_lcdInitAttempts, initStack>>

hwVars == <<pins, gpioLog, busLog, panelWrites>>

wrapVars == <<wrapIn, wrapOut>>

fnVars == <<fnIn, fnOut>>

-----------------------------------------------------------------------------
(* Bounds of the model *)

\* drawing calls recorded in panelWrites before further drawing is cut off
MaxPanelWrites == 2
\* nesting depth of lcdEnsureInit activations the model can represent
MaxInitDepth == 2
\* bus operations explored on a free-standing transport adaptor
MaxBusOps == 4
\* length of the generated texts handed to lcdWrapText
MaxTextLen == 5

\* longest generated colour string
MaxHexLen == 7

\* screen heights 1..MaxSmallHeight are all tried
MaxSmallHeight == 150

\* milliseconds that pass during one playGifFullScreen call
MaxTicks == 4

\* commands in one batch request
MaxBatch == 2

\* upload requests served since boot
MaxRequests == 2

\* UPLOAD_FILE_WRITE events of one upload
MaxChunks == 2

\* boots of the device, the first included
MaxBoots == 2

-----------------------------------------------------------------------------
(* Program constants *)

\* pointers are records so that a null and an object compare
NULL == [ptr |-> "nullptr"]
TheLcd == [ptr |-> "Arduino_ST7789"]
GFX_NOT_DEFINED == -1
LCD_KEEP_CS_ASSERTED == TRUE

LCD_W == 240
LCD_H == 240
LCD_CS_GPIO == 2
LCD_RST_GPIO == 15
LCD_BACKLIGHT_GPIO == 5

Pins == 0..16
Levels == {"Z", "LOW", "HIGH"}

-----------------------------------------------------------------------------
(* ConfigManager *)

DefaultConfig ==
    [lcd_enable |-> TRUE,
     lcd_cs_gpio |-> 2,
     lcd_rst_gpio |-> 15,
     lcd_cs_active_high |-> TRUE,
     lcd_keep_cs_asserted |-> TRUE,
     lcd_backlight_gpio |-> 5,
     lcd_backlight_active_low |-> TRUE]

\* config.json contents explored: the defaults, and each panel field changed
LoadedConfigs ==
    {DefaultConfig,
     [DefaultConfig EXCEPT !.lcd_enable = FALSE],
     [DefaultConfig EXCEPT !.lcd_cs_gpio = -1],
     [DefaultConfig EXCEPT !.lcd_rst_gpio = -1],
     [DefaultConfig EXCEPT !.lcd_backlight_gpio = -1],
     [DefaultConfig EXCEPT !.lcd_cs_active_high = FALSE],
     [DefaultConfig EXCEPT !.lcd_keep_cs_asserted = FALSE],
     [DefaultConfig EXCEPT !.lcd_backlight_active_low = FALSE],
     [DefaultConfig EXCEPT !.lcd_rst_gpio = 4, !.lcd_backlight_gpio = 12,
                           !.lcd_cs_gpio = 0]}

getLCDEnableSafe(c) == c.lcd_enable
getLCDCsGpioSafe(c) == IF c.lcd_cs_gpio >= 0 THEN c.lcd_cs_gpio ELSE LCD_CS_GPIO
getLCDRstGpioSafe(c) == IF c.lcd_rst_gpio >= 0 THEN c.lcd_rst_gpio ELSE LCD_RST_GPIO
getLCDCsActiveHighSafe(c) == c.lcd_cs_active_high
getLCDKeepCsAssertedSafe(c) == c.lcd_keep_cs_asserted
getLCDBacklightGpioSafe(c) ==
    IF c.lcd_backlight_gpio >= 0 THEN c.lcd_backlight_gpio ELSE LCD_BACKLIGHT_GPIO
getLCDBacklightActiveLowSafe(c) == c.lcd_backlight_active_low

-----------------------------------------------------------------------------
(* The mutable state as one record, so that the straight-line pieces of the *)
(* source compose by function application.                                  *)

Cur ==
    [lcd |-> g_lcd, bus |-> g_lcdBus, ready |-> g_lcdReady,
     initializing |-> g_lcdInitializing, initOk |-> g_lcdInitOk,
     attempts |-> g_lcdInitAttempts, pins |-> pins, gpioLog |-> gpioLog,
     busLog |-> busLog, panelWrites |-> panelWrites]

Commit(s) ==
    /\ g_lcd' = s.lcd
    /\ g_lcdBus' = s.bus
    /\ g_lcdReady' = s.ready
    /\ g_lcdInitializing' = s.initializing
    /\ g_lcdInitOk' = s.initOk
    /\ g_lcdInitAttempts' = s.attempts
    /\ pins' = s.pins
    /\ gpioLog' = s.gpioLog
    /\ busLog' = s.busLog
    /\ panelWrites' = s.panelWrites

\* pinMode(pin, OUTPUT); digitalWrite(pin, level), issued by step `by`
digitalWrite(s, pin, level, by) ==
    [s EXCEPT !.pins[pin] = level,
              !.gpioLog = Append(@, [pin |-> pin, level |-> level, by |-> by])]

-----------------------------------------------------------------------------
(* SPI transport adaptor: HelloCubicSPIBus (GeekMagicSPIBus in the caller)  *)

CsInactiveLevel(csActiveHigh) == IF csActiveHigh THEN "LOW" ELSE "HIGH"

CsActiveLevel_m(csActiveHigh) == "HIGH"
CsActiveLevel(csActiveHigh) == IF csActiveHigh THEN "HIGH" ELSE "LOW"

NewBus(csPin, csActiveHigh) == [cs |-> csPin, csActiveHigh |-> csActiveHigh]

\* begin(speed, dataMode); r is what _spi.begin returns
BusBegin(s, r) ==
    LET s1 == IF s.bus.cs # GFX_NOT_DEFINED
              THEN digitalWrite(s, s.bus.cs, CsInactiveLevel(s.bus.csActiveHigh), "cs")
              ELSE s
    IN  [s1 EXCEPT !.busLog = Append(@, <<"begin", r>>)]

BusBeginWrite(s) ==
    LET s1 == IF s.bus.cs # GFX_NOT_DEFINED
              THEN digitalWrite(s, s.bus.cs, CsActiveLevel(s.bus.csActiveHigh), "cs")
              ELSE s
    IN  [s1 EXCEPT !.busLog = Append(@, <<"beginWrite">>)]

BusEndWrite(s) ==
    LET s1 == [s EXCEPT !.busLog = Append(@, <<"endWrite">>)]
    IN  IF LCD_KEEP_CS_ASSERTED
        THEN s1
        ELSE IF s.bus.cs # GFX_NOT_DEFINED
             THEN digitalWrite(s1, s.bus.cs, CsInactiveLevel(s.bus.csActiveHigh), "cs")
             ELSE s1

BusWriteCommand(s, c) == [s EXCEPT !.busLog = Append(@, <<"cmd", c>>)]

BusWrite(s, d) == [s EXCEPT !.busLog = Append(@, <<"data", d>>)]

-----------------------------------------------------------------------------
(* Panel driver: ST7789 vendor bring-up                                     *)

ST7789_SLEEP_OUT == 17              \* 0x11
ST7789_PORCH == 178                 \* 0xB2
ST7789_TEARING_EFFECT == 53         \* 0x35
ST7789_MEMORY_ACCESS_CONTROL == 54  \* 0x36
ST7789_COLORMODE == 58              \* 0x3A
ST7789_COLORMODE_RGB565 == 5        \* 0x05
ST7789_POWER_B7 == 183
ST7789_POWER_BB == 187
ST7789_POWER_C0 == 192
ST7789_POWER_C2 == 194
ST7789_POWER_C3 == 195
ST7789_POWER_C4 == 196
ST7789_POWER_C6 == 198
ST7789_POWER_D0 == 208
ST7789_POWER_D6 == 214
ST7789_GAMMA_POS == 224             \* 0xE0
ST7789_GAMMA_NEG == 225             \* 0xE1
ST7789_GAMMA_CTRL == 228            \* 0xE4
ST7789_INVERSION_ON == 33           \* 0x21
ST7789_DISPLAY_ON == 41             \* 0x29
ST7789_CASET == 42                  \* 0x2A
ST7789_RASET == 43                  \* 0x2B
ST7789_RAMWR == 44                  \* 0x2C

ST7789_GAMMA_POS_DATA == <<240, 8, 14, 9, 8, 4, 47, 51, 69, 54, 19, 18, 42, 45>>
ST7789_GAMMA_NEG_DATA == <<240, 14, 18, 12, 10, 21, 46, 50, 68, 57, 23, 24, 43, 47>>
ST7789_GAMMA_CTRL_DATA == <<29, 0, 0>>
\* ST7789_ADDR_START_HIGH, _START_LOW, _END_HIGH, _END_LOW
ST7789_ADDR_WINDOW == <<0, 0, 0, 239>>

\* one entry per command of lcdRunVendorInit with the data bytes written
\* before the next delay()/yield()
VendorGroups_m ==
    <<[cmd |-> ST7789_SLEEP_OUT, data |-> <<>>],
      [cmd |-> ST7789_PORCH, data |-> <<31, 31, 0, 51, 51>>],
      [cmd |-> ST7789_MEMORY_ACCESS_CONTROL, data |-> <<0>>],
      [cmd |-> ST7789_TEARING_EFFECT, data |-> <<0>>],
      [cmd |-> ST7789_COLORMODE, data |-> <<ST7789_COLORMODE_RGB565>>],
      [cmd |-> ST7789_POWER_B7, data |-> <<0>>],
      [cmd |-> ST7789_POWER_BB, data |-> <<54>>],
      [cmd |-> ST7789_POWER_C0, data |-> <<44>>],
      [cmd |-> ST7789_POWER_C2, data |-> <<1>>],
      [cmd |-> ST7789_POWER_C3, data |-> <<19>>],
      [cmd |-> ST7789_POWER_C4, data |-> <<32>>],
      [cmd |-> ST7789_POWER_C6, data |-> <<19>>],
      [cmd |-> ST7789_POWER_D6, data |-> <<161>>],
      [cmd |-> ST7789_POWER_D0, data |-> <<164, 161>>],
      [cmd |-> ST7789_POWER_D6, data |-> <<161>>],
      [cmd |-> ST7789_GAMMA_POS, data |-> ST7789_GAMMA_POS_DATA],
      [cmd |-> ST7789_GAMMA_NEG, data |-> ST7789_GAMMA_NEG_DATA],
      [cmd |-> ST7789_GAMMA_CTRL, data |-> ST7789_GAMMA_CTRL_DATA],
      [cmd |-> ST7789_INVERSION_ON, data |-> <<>>],
      [cmd |-> ST7789_DISPLAY_ON, data |-> <<>>],
      [cmd |-> ST7789_CASET, data |-> ST7789_ADDR_WINDOW],
      [cmd |-> ST7789_RASET, data |-> ST7789_ADDR_WINDOW],
      [cmd |-> ST7789_RAMWR, data |-> <<>>]>>
VendorGroups ==
    <<[cmd |-> ST7789_SLEEP_OUT, data |-> <<>>],
      [cmd |-> ST7789_PORCH, data |-> <<31, 31, 0, 51, 51>>],
      [cmd |-> ST7789_TEARING_EFFECT, data |-> <<0>>],
      [cmd |-> ST7789_MEMORY_ACCESS_CONTROL, data |-> <<0>>],
      [cmd |-> ST7789_COLORMODE, data |-> <<ST7789_COLORMODE_RGB565>>],
      [cmd |-> ST7789_POWER_B7, data |-> <<0>>],
      [cmd |-> ST7789_POWER_BB, data |-> <<54>>],
      [cmd |-> ST7789_POWER_C0, data |-> <<44>>],
      [cmd |-> ST7789_POWER_C2, data |-> <<1>>],
      [cmd |-> ST7789_POWER_C3, data |-> <<19>>],
      [cmd |-> ST7789_POWER_C4, data |-> <<32>>],
      [cmd |-> ST7789_POWER_C6, data |-> <<19>>],
      [cmd |-> ST7789_POWER_D6, data |-> <<161>>],
      [cmd |-> ST7789_POWER_D0, data |-> <<164, 161>>],
      [cmd |-> ST7789_POWER_D6, data |-> <<161>>],
      [cmd |-> ST7789_GAMMA_POS, data |-> ST7789_GAMMA_POS_DATA],
      [cmd |-> ST7789_GAMMA_NEG, data |-> ST7789_GAMMA_NEG_DATA],
      [cmd |-> ST7789_GAMMA_CTRL, data |-> ST7789_GAMMA_CTRL_DATA],
      [cmd |-> ST7789_INVERSION_ON, data |-> <<>>],
      [cmd |-> ST7789_DISPLAY_ON, data |-> <<>>],
      [cmd |-> ST7789_CASET, data |-> ST7789_ADDR_WINDOW],
      [cmd |-> ST7789_RASET, data |-> ST7789_ADDR_WINDOW],
      [cmd |-> ST7789_RAMWR, data |-> <<>>]>>

ST7789_WriteCommand(s, cmd) == IF s.bus = NULL THEN s ELSE BusWriteCommand(s, cmd)

ST7789_WriteData(s, d) == IF s.bus = NULL THEN s ELSE BusWrite(s, d)

RECURSIVE WriteDataBytes(_, _)
WriteDataBytes(s, bytes) ==
    IF bytes = <<>> THEN s
    ELSE WriteDataBytes(ST7789_WriteData(s, Head(bytes)), Tail(bytes))

\* the k-th command of lcdRunVendorInit and its data bytes
VendorGroup(s, k) ==
    WriteDataBytes(ST7789_WriteCommand(s, VendorGroups[k].cmd), VendorGroups[k].data)

lcdBacklightOn(s, c) ==
    LET gpio == getLCDBacklightGpioSafe(c)
    IN  IF gpio < 0
        THEN s
        ELSE digitalWrite(s, gpio,
                          IF getLCDBacklightActiveLowSafe(c) THEN "LOW" ELSE "HIGH",
                          "backlight")

\* one of the three pin writes of lcdHardReset (HIGH, LOW, HIGH), each of
\* which is followed by delay(LCD_HARDWARE_RESET_DELAY_MS)
lcdHardResetWrite(s, rst, level) == digitalWrite(s, rst, level, "reset")

-----------------------------------------------------------------------------
(* lcdEnsureInit, cut at its delay()/yield() points.  A frame [pc, k] is a   *)
(* suspended activation: pc names the code that runs when it resumes and k  *)
(* the next vendor command.  Seg runs one straight-line piece and says       *)
(* whether it ended in a delay()/yield() (yield) or fell through.           *)

EnsureInitReturnsEarly_m(c, ready, initializing) ==
    ~getLCDEnableSafe(c) \/ ready
EnsureInitReturnsEarly(c, ready, initializing) ==
    ~getLCDEnableSafe(c) \/ ready \/ initializing

MarkStarted(s) ==
    [s EXCEPT !.initializing = TRUE, !.attempts = @ + 1, !.initOk = FALSE]

MarkReady_m(s) ==
    [s EXCEPT !.ready = TRUE, !.initializing = FALSE]
MarkReady(s) ==
    [s EXCEPT !.ready = TRUE, !.initializing = FALSE, !.initOk = TRUE]

\* delete the old objects, build the bus and the panel object, first
\* g_lcdBus->begin (its result r is dropped), g_lcd->begin()
ConstructPanel(s, c, r) ==
    LET s1 == [s EXCEPT !.lcd = TheLcd,
                        !.bus = NewBus(getLCDCsGpioSafe(c), getLCDCsActiveHighSafe(c))]
        s2 == BusBegin(s1, r)
    IN  [s2 EXCEPT !.busLog = Append(@, <<"gfx", "begin">>)]

\* setRotation, the three flags, fillScreen(LCD_BLACK), setTextColor
FinishInit(s) ==
    LET s1 == [s EXCEPT !.busLog = Append(@, <<"gfx", "setRotation">>)]
        s2 == MarkReady(s1)
    IN  [s2 EXCEPT !.panelWrites = Append(@, "fillScreen")]

NumVendorGroups == Len(VendorGroups)

Seg(s, f, c, r) ==
    LET rst == getLCDRstGpioSafe(c)
        Out(s1, pc1, k1, y) == [s |-> s1, f |-> [pc |-> pc1, k |-> k1], yield |-> y]
    IN  CASE f.pc = "enter" ->
               LET s1 == lcdBacklightOn(MarkStarted(s), c)
               IN  IF rst < 0
                   THEN Out(s1, "construct", 0, FALSE)
                   ELSE Out(lcdHardResetWrite(s1, rst, "HIGH"), "rst1_low", 0, TRUE)
          [] f.pc = "rst1_low" ->
               Out(lcdHardResetWrite(s, rst, "LOW"), "rst1_high", 0, TRUE)
          [] f.pc = "rst1_high" ->
               Out(lcdHardResetWrite(s, rst, "HIGH"), "construct", 0, TRUE)
          [] f.pc = "construct" ->
               Out(ConstructPanel(s, c, r), "rst2", 0, TRUE)
          [] f.pc = "rst2" ->
               IF rst < 0
               THEN Out(s, "busbegin2", 0, FALSE)
               ELSE Out(lcdHardResetWrite(s, rst, "HIGH"), "rst2_low", 0, TRUE)
          [] f.pc = "rst2_low" ->
               Out(lcdHardResetWrite(s, rst, "LOW"), "rst2_high", 0, TRUE)
          [] f.pc = "rst2_high" ->
               Out(lcdHardResetWrite(s, rst, "HIGH"), "busbegin2", 0, TRUE)
          [] f.pc = "busbegin2" ->
               LET s1 == BusBegin(s, r)
               IN  IF s1.bus = NULL
                   THEN Out(s1, "finish", 0, FALSE)
                   ELSE Out(VendorGroup(BusBeginWrite(s1), 1), "vendor", 2, TRUE)
          [] f.pc = "vendor" ->
               Out(VendorGroup(s, f.k),
                   IF f.k = NumVendorGroups THEN "endwrite" ELSE "vendor",
                   f.k + 1, TRUE)
          [] f.pc = "endwrite" ->
               Out(BusEndWrite(s), "finish", 0, FALSE)
          [] f.pc = "finish" ->
               Out(FinishInit(s), "done", 0, TRUE)

\* run from frame f up to the next delay()/yield() or the return
RECURSIVE RunToYield(_, _, _, _)
RunToYield(s, f, c, r) ==
    LET o == Seg(s, f, c, r)
    IN  IF o.yield THEN o ELSE RunToYield(o.s, o.f, c, r)

PushOrDrop(stack, f) == IF f.pc = "done" THEN stack ELSE Append(stack, f)

Front(stack) == SubSeq(stack, 1, Len(stack) - 1)

\* what the last public call met and did: the panel was ready (ready flag and
\* handle), it wrote to the panel, it read through the panel handle
Call(op, ready, wrote, deref) ==
    [op |-> op, ready |-> ready, wrote |-> wrote, deref |-> deref]

\* DisplayManager::begin() -> lcdEnsureInit()
BeginCall ==
    /\ ~fault
    /\ IF EnsureInitReturnsEarly(cfg, g_lcdReady, g_lcdInitializing)
       THEN /\ UNCHANGED <<dmVars, hwVars>>
            /\ lastCall' = Call("begin_returned_early", g_lcdReady /\ g_lcd # NULL,
                                FALSE, FALSE)
       ELSE /\ Len(initStack) < MaxInitDepth
            /\ \E r \in BOOLEAN :
                 LET o == RunToYield(Cur, [pc |-> "enter", k |-> 0], cfg, r)
                 IN  /\ Commit(o.s)
                     /\ initStack' = PushOrDrop(initStack, o.f)
            /\ lastCall' = Call("begin", FALSE, FALSE, FALSE)
    /\ UNCHANGED <<cfg, fault, wrapVars, fnVars, gif>>

\* the suspended lcdEnsureInit activation resumes after its delay()/yield()
InitResume ==
    /\ ~fault
    /\ initStack # <<>>
    /\ \E r \in BOOLEAN :
         LET o == RunToYield(Cur, initStack[Len(initStack)], cfg, r)
         IN  /\ Commit(o.s)
             /\ initStack' = PushOrDrop(Front(initStack), o.f)
    /\ UNCHANGED <<cfg, fault, lastCall, wrapVars, fnVars, gif>>

-----------------------------------------------------------------------------
(* Drawing calls                                                            *)

Primitives ==
    {"fillScreen", "clearScreen", "drawPixel", "drawLine", "drawRect",
     "fillRect", "drawCircle", "fillCircle", "drawTriangle", "fillTriangle",
     "drawEllipse", "fillEllipse", "drawRoundRect", "fillRoundRect"}

DrawGuard_m(ready, lcd) == lcd # NULL
DrawGuard(ready, lcd) == ready /\ lcd # NULL

\* DisplayManager::isReady()
isReady == g_lcdReady /\ g_lcd # NULL /\ g_lcdInitOk

\* DisplayManager::fillScreen ... DisplayManager::fillRoundRect
PrimitiveCall(p) ==
    /\ ~fault
    /\ IF DrawGuard(g_lcdReady, g_lcd)
       THEN /\ Len(panelWrites) < MaxPanelWrites
            /\ panelWrites' = Append(panelWrites, p)
            /\ lastCall' = Call(p, TRUE, TRUE, TRUE)
       ELSE /\ UNCHANGED panelWrites
            /\ lastCall' = Call(p, FALSE, FALSE, FALSE)
    /\ UNCHANGED <<cfg, dmVars, pins, gpioLog, busLog, fault, wrapVars, fnVars, gif>>

TextXs == {-5, 10, 240}
TextYs == {-5, 10, 240}
TextSizes == {0, 1}
NullDerefOutcomes == {"trap", "garbage"}

\* DisplayManager::drawTextWrapped -> lcdDrawTextWrapped.  The first statement
\* reads g_lcd->width() with no check: through a null handle that is undefined
\* behaviour, which either traps or yields garbage dimensions that make the
\* call return.
DrawTextWrappedCall(x, y, size) ==
    /\ ~fault
    /\ IF g_lcd = NULL
       THEN /\ \E outcome \in NullDerefOutcomes : fault' = (outcome = "trap")
            /\ lastCall' = Call("drawTextWrapped", FALSE, FALSE, TRUE)
            /\ UNCHANGED panelWrites
       ELSE LET startX == IF x < 0 THEN 0 ELSE x
                startY == IF y < 0 THEN 0 ELSE y
                charW == 6 * size
                charH == 8 * size
            IN  /\ UNCHANGED fault
                /\ IF startX >= LCD_W \/ startY >= LCD_H \/ charW <= 0 \/ charH <= 0
                   THEN /\ UNCHANGED panelWrites
                        /\ lastCall' = Call("drawTextWrapped",
                                            DrawGuard(g_lcdReady, g_lcd), FALSE, TRUE)
                   ELSE /\ Len(panelWrites) < MaxPanelWrites
                        /\ panelWrites' = Append(panelWrites, "drawTextWrapped")
                        /\ lastCall' = Call("drawTextWrapped",
                                            DrawGuard(g_lcdReady, g_lcd), TRUE, TRUE)
    /\ UNCHANGED <<cfg, dmVars, pins, gpioLog, busLog, wrapVars, fnVars, gif>>

-----------------------------------------------------------------------------
NoCall == Call("none", FALSE, FALSE, FALSE)

NoWrap == [text |-> <<>>, startX |-> 0, startY |-> 0, textSize |-> 0]

\* no pure function examined
NoFn == [fn |-> "none"]

\* s_gif as constructed and no playGifFullScreen activation: the decoder's
\* flags, then the activation (pc: where it is suspended; timeMs, now, endMs:
\* its duration and clock readings as 32-bit values in 16-bit halves; result:
\* what it returned), then what is remembered of it for the record
GifIdle ==
    [playing |-> FALSE, loopEnabled |-> FALSE, stopRequested |-> FALSE,
     pc |-> "idle", timeMs |-> [hi |-> 0, lo |-> 0], now |-> [hi |-> 0, lo |-> 0],
     endMs |-> [hi |-> 0, lo |-> 0], ticks |-> 0, result |-> "none",
     session |-> "none", stopCalled |-> FALSE, playingAtWaitEnd |-> FALSE,
     waited |-> FALSE]

InitAux ==
    /\ fnIn = NoFn
    /\ fnOut = NoFn
    /\ gif = GifIdle

InitCommon ==
    /\ g_lcd = NULL
    /\ g_lcdReady = FALSE
    /\ g_lcdInitializing = FALSE
    /\ g_lcdInitOk = FALSE
    /\ g_lcdInitAttempts = 0
    /\ initStack = <<>>
    /\ pins = [p \in Pins |-> "Z"]
    /\ gpioLog = <<>>
    /\ busLog = <<>>
    /\ panelWrites = <<>>
    /\ fault = FALSE
    /\ lastCall = NoCall

Init ==
    /\ cfg \in LoadedConfigs
    /\ g_lcdBus = NULL
    /\ InitCommon
    /\ wrapIn = NoWrap
    /\ wrapOut = <<>>
    /\ InitAux

Next ==
    \/ BeginCall
    \/ InitResume
    \/ \E p \in Primitives : PrimitiveCall(p)
    \/ \E x \in TextXs, y \in TextYs, size \in TextSizes : DrawTextWrappedCall(x, y, size)

Spec == Init /\ [][Next]_vars

-----------------------------------------------------------------------------
(* The transport adaptor on its own: a bus object built with any chip-select *)
(* pin (or none) and either polarity, driven through its public operations. *)

BusCsPins == {GFX_NOT_DEFINED, 0, LCD_CS_GPIO}

BusObjects == {NewBus(csPin, ah) : csPin \in BusCsPins, ah \in BOOLEAN}

BusConfigs == {DefaultConfig, [DefaultConfig EXCEPT !.lcd_keep_cs_asserted = FALSE]}

CallBusBegin(r) ==
    /\ Len(busLog) < MaxBusOps
    /\ Commit(BusBegin(Cur, r))
    /\ UNCHANGED <<cfg, initStack, fault, lastCall, wrapVars, fnVars, gif>>

CallBusBeginWrite ==
    /\ Len(busLog) < MaxBusOps
    /\ Commit(BusBeginWrite(Cur))
    /\ UNCHANGED <<cfg, initStack, fault, lastCall, wrapVars, fnVars, gif>>

CallBusEndWrite ==
    /\ Len(busLog) < MaxBusOps
    /\ Commit(BusEndWrite(Cur))
    /\ UNCHANGED <<cfg, initStack, fault, lastCall, wrapVars, fnVars, gif>>

CallBusWriteCommand(c) ==
    /\ Len(busLog) < MaxBusOps
    /\ Commit(BusWriteCommand(Cur, c))
    /\ UNCHANGED <<cfg, initStack, fault, lastCall, wrapVars, fnVars, gif>>

CallBusWrite(d) ==
    /\ Len(busLog) < MaxBusOps
    /\ Commit(BusWrite(Cur, d))
    /\ UNCHANGED <<cfg, initStack, fault, lastCall, wrapVars, fnVars, gif>>

InitBus ==
    /\ cfg \in BusConfigs
    /\ g_lcdBus \in BusObjects
    /\ InitCommon
    /\ wrapIn = NoWrap
    /\ wrapOut = <<>>
    /\ InitAux

NextBus ==
    \/ \E r \in BOOLEAN : CallBusBegin(r)
    \/ CallBusBeginWrite
    \/ CallBusEndWrite
    \/ CallBusWriteCommand(ST7789_RAMWR)
    \/ CallBusWrite(ST7789_COLORMODE_RGB565)

SpecBus == InitBus /\ [][NextBus]_vars

-----------------------------------------------------------------------------
(* Word wrap.  A String is a sequence of character codes.                   *)

MAX_LINE_SLOTS == 10

CR == 13
LF == 10
TAB == 9
SPACE == 32

\* C++ integer division truncates toward zero
CDiv(a, b) == IF a >= 0 THEN a \div b ELSE -((-a) \div b)

CapReached_m(out, maxLines, maxSlots) == Len(out) > maxLines \/ Len(out) > maxSlots
CapReached(out, maxLines, maxSlots) == Len(out) >= maxLines \/ Len(out) >= maxSlots

\* w = [out, line, word] are the three by-reference arguments
lcdPushLine(w, maxLines, maxSlots) ==
    IF CapReached(w.out, maxLines, maxSlots)
    THEN w
    ELSE [w EXCEPT !.out = Append(@, w.line), !.line = <<>>]

FitsAfterSpace_m(line, word, maxCharsPerLine) ==
    Len(line) + 1 + Len(word) < maxCharsPerLine
FitsAfterSpace_ignoreLine(line, word, maxCharsPerLine) ==
    Len(word) <= maxCharsPerLine
FitsAfterSpace_ignoreSpace(line, word, maxCharsPerLine) ==
    Len(line) + Len(word) <= maxCharsPerLine
FitsAfterSpace(line, word, maxCharsPerLine) ==
    Len(line) + 1 + Len(word) <= maxCharsPerLine

lcdAppendWord(w, maxCharsPerLine, maxLines, maxSlots) ==
    LET StartLine(v) == [v EXCEPT !.line = v.word, !.word = <<>>]
        PushThenStart(v) ==
            LET v1 == lcdPushLine(v, maxLines, maxSlots)
            IN  IF CapReached(v1.out, maxLines, maxSlots)
                THEN [v1 EXCEPT !.word = <<>>]
                ELSE StartLine(v1)
    IN  IF Len(w.word) = 0 THEN w
        ELSE IF Len(w.word) > maxCharsPerLine
             THEN IF Len(w.line) # 0 THEN PushThenStart(w) ELSE StartLine(w)
        ELSE IF Len(w.line) = 0 THEN StartLine(w)
        ELSE IF FitsAfterSpace(w.line, w.word, maxCharsPerLine)
             THEN [w EXCEPT !.line = w.line \o <<SPACE>> \o w.word, !.word = <<>>]
        ELSE PushThenStart(w)

\* the character loop of lcdWrapText from index i on; the state after a
\* character is compared with the state before it, so that it is computed
\* before the next character is read
RECURSIVE WrapScan(_, _, _, _, _)
WrapScan(w, text, i, maxCharsPerLine, maxLines) ==
    IF i > Len(text) THEN w
    ELSE LET chr == text[i]
             w1 == IF chr = CR THEN w
                   ELSE IF chr = LF
                        THEN lcdPushLine(lcdAppendWord(w, maxCharsPerLine, maxLines,
                                                       MAX_LINE_SLOTS),
                                         maxLines, MAX_LINE_SLOTS)
                   ELSE IF chr = SPACE \/ chr = TAB
                        THEN lcdAppendWord(w, maxCharsPerLine, maxLines, MAX_LINE_SLOTS)
                   ELSE [w EXCEPT !.word = Append(@, chr)]
         IN  IF w1 = w
             THEN WrapScan(w, text, i + 1, maxCharsPerLine, maxLines)
             ELSE WrapScan(w1, text, i + 1, maxCharsPerLine, maxLines)

\* the result is never returned empty
NeverEmpty_m(out) == out
NeverEmpty(out) == IF out = <<>> THEN << <<>> >> ELSE out

MaxCharsPerLine(startX, textSize, screenW) == CDiv(screenW - startX, 6 * textSize)

MaxLines(startY, textSize, screenH) == CDiv(screenH - startY, 8 * textSize)

lcdWrapText(startX, startY, text, textSize, screenW, screenH) ==
    LET charW == 6 * textSize
        charH == 8 * textSize
    IN  IF charW <= 0 \/ charH <= 0 THEN << <<>> >>
        ELSE LET maxCharsPerLine == MaxCharsPerLine(startX, textSize, screenW)
                 maxLines == MaxLines(startY, textSize, screenH)
             IN  IF maxCharsPerLine <= 0 \/ maxLines <= 0 THEN << <<>> >>
                 ELSE LET w0 == WrapScan([out |-> <<>>, line |-> <<>>, word |-> <<>>],
                                         text, 1, maxCharsPerLine, maxLines)
                          w1 == lcdAppendWord(w0, maxCharsPerLine, maxLines,
                                              MAX_LINE_SLOTS)
                          out == IF /\ Len(w1.line) # 0
                                    /\ Len(w1.out) < maxLines
                                    /\ Len(w1.out) < MAX_LINE_SLOTS
                                 THEN Append(w1.out, w1.line)
                                 ELSE w1.out
                      IN  NeverEmpty(out)

\* characters of the generated texts: 'a', 'b', ' ', '\n'
TextAlphabet == {97, 98, SPACE, LF}

\* "Hello World"
HelloWorld == <<72, 101, 108, 108, 111, 32, 87, 111, 114, 108, 100>>

\* a word of twenty letters 'c'
Word20 == [i \in 1..20 |-> 99]

\* "a\na\n...a": twelve one-letter lines
TwelveLines == [i \in 1..23 |-> IF i % 2 = 1 THEN 97 ELSE LF]

\* "a a ... a": twelve one-letter words on one logical line
TwelveWords == [i \in 1..23 |-> IF i % 2 = 1 THEN 97 ELSE SPACE]

\* texts with a carriage return and with a tab: "a\r\nb", "a\tb", "a\rb c";
\* the long word alone, between words ("ab cc...c ba") and after a newline;
\* texts of more than ten lines, one of them eleven empty lines and a word;
\* a text of separators only ("\r \t")
ExtraTexts ==
    {HelloWorld, <<97, CR, LF, 98>>, <<97, TAB, 98>>, <<97, CR, 98, SPACE, 97>>,
     Word20, <<97, 98, SPACE>> \o Word20 \o <<SPACE, 98, 97>>,
     <<97, LF>> \o Word20 \o <<LF, 98>>,
     TwelveLines, TwelveWords, [i \in 1..11 |-> LF] \o <<99, 99, 99, 99, 99, 99>>,
     <<CR, SPACE, TAB>>}

WrapTexts ==
    UNION {[1..n -> TextAlphabet] : n \in 0..MaxTextLen} \union ExtraTexts

\* <<startX, startY, textSize>> on the 240x240 panel: 5 columns x 30 rows,
\* 3 x 30, 3 x 1, 5 x 2, 2 x 15 (size 2), 1 x 30, no column left (2 pixels),
\* size 0
WrapGeometries ==
    {<<210, 0, 1>>, <<222, 0, 1>>, <<222, 232, 1>>, <<210, 224, 1>>,
     <<216, 0, 2>>, <<234, 0, 1>>, <<238, 0, 1>>, <<0, 0, 0>>}

WrapCall ==
    /\ lastCall = NoCall
    /\ wrapOut' = lcdWrapText(wrapIn.startX, wrapIn.startY, wrapIn.text,
                              wrapIn.textSize, LCD_W, LCD_H)
    /\ lastCall' = Call("lcdWrapText", FALSE, FALSE, FALSE)
    /\ UNCHANGED <<cfg, dmVars, hwVars, fault, wrapIn, fnVars, gif>>

InitWrap ==
    /\ cfg = DefaultConfig
    /\ g_lcdBus = NULL
    /\ InitCommon
    /\ \E t \in WrapTexts, g \in WrapGeometries :
          wrapIn = [text |-> t, startX |-> g[1], startY |-> g[2], textSize |-> g[3]]
    /\ wrapOut = <<>>
    /\ InitAux

NextWrap == WrapCall

SpecWrap == InitWrap /\ [][NextWrap]_vars

-----------------------------------------------------------------------------
(* hexToRgb565.  A String is a sequence of character codes.                 *)

HEX_COLOR_LENGTH == 6
RED_SHIFT == 16
GREEN_SHIFT == 8
BYTE_MASK == 255
RED_MASK_565 == 248
GREEN_MASK_565 == 252
RGB565_RED_SHIFT == 8
RGB565_GREEN_SHIFT == 3
RGB565_BLUE_SHIFT == 3

LCD_WHITE == 65535

\* unsigned long of the ESP8266 is 32 bits wide; a value is held as its two
\* 16-bit halves
ULONG_MAX == [hi |-> 65535, lo |-> 65535]

\* String::startsWith for a one-character prefix, String::substring(from)
startsWith(str, chr) == Len(str) >= 1 /\ str[1] = chr

substring(str, from) == SubSeq(str, from + 1, Len(str))

\* isspace of the C locale: space, \t \n \v \f \r
isspace(c) == c = 32 \/ c \in 9..13

\* value of a digit in base 16, -1 for a character that is none
HexVal(c) ==
    IF c \in 48..57 THEN c - 48
    ELSE IF c \in 65..70 THEN c - 55
    ELSE IF c \in 97..102 THEN c - 87
    ELSE -1

\* (v >> shift) & BYTE_MASK for a 32-bit v
ByteAt(v, shift) ==
    IF shift >= 16
    THEN (v.hi \div (2^(shift - 16))) % (BYTE_MASK + 1)
    ELSE ((v.lo \div (2^shift)) + (v.hi % 256) * (2^(16 - shift))) % (BYTE_MASK + 1)

\* x >> n and x << n on a byte, x & mask for a mask of the form 2^8 - 2^k
Shr(x, n) == x \div (2^n)

Shl(x, n) == x * (2^n)

AndMask_m(x, mask) == (x % 256) - ((x % 256) % 8)
AndMask(x, mask) == (x % 256) - ((x % 256) % (256 - mask))

\* acc * 16 + digit on 32 bits, with the overflow it causes
TimesSixteenPlus(acc, digit) ==
    LET lo == acc.lo * 16 + digit
        hi == acc.hi * 16 + lo \div 65536
    IN  [acc |-> [hi |-> hi % 65536, lo |-> lo % 65536], over |-> hi > 65535]

\* -acc modulo 2^32
Negate32(acc) ==
    IF acc.lo = 0
    THEN [hi |-> (65536 - acc.hi) % 65536, lo |-> 0]
    ELSE [hi |-> 65535 - acc.hi, lo |-> 65536 - acc.lo]

\* the digit loop of strtoul: accumulates while digits follow, remembers
\* overflow of unsigned long
RECURSIVE StrtoulDigits(_, _, _, _)
StrtoulDigits(str, i, acc, over) ==
    IF i > Len(str) \/ HexVal(str[i]) < 0
    THEN [acc |-> acc, over |-> over]
    ELSE LET nxt == TimesSixteenPlus(acc, HexVal(str[i]))
         IN  IF over \/ nxt.over
             THEN StrtoulDigits(str, i + 1, acc, TRUE)
             ELSE StrtoulDigits(str, i + 1, nxt.acc, FALSE)

\* strtoul(str, nullptr, 16): leading white space, an optional sign, an
\* optional 0x or 0X, then the longest run of hex digits; no digits give 0,
\* overflow gives ULONG_MAX, a minus sign negates modulo 2^32
strtoul16(str) ==
    LET RECURSIVE SkipSpace(_)
        SkipSpace(i) == IF i <= Len(str) /\ isspace(str[i]) THEN SkipSpace(i + 1) ELSE i
        i0 == SkipSpace(1)
        neg == i0 <= Len(str) /\ str[i0] = 45
        i1 == IF i0 <= Len(str) /\ (str[i0] = 45 \/ str[i0] = 43) THEN i0 + 1 ELSE i0
        i2 == IF /\ i1 + 1 <= Len(str)
                 /\ str[i1] = 48
                 /\ (str[i1 + 1] = 120 \/ str[i1 + 1] = 88)
              THEN i1 + 2 ELSE i1
        r == StrtoulDigits(str, i2, [hi |-> 0, lo |-> 0], FALSE)
    IN  IF r.over THEN ULONG_MAX
        ELSE IF neg THEN Negate32(r.acc)
        ELSE r.acc

\* the RGB565 packing of three bytes, as a uint16_t
PackRgb565(red, green, blue) ==
    (Shl(AndMask(red, RED_MASK_565), RGB565_RED_SHIFT)
        + Shl(AndMask(green, GREEN_MASK_565), RGB565_GREEN_SHIFT)
        + Shr(blue, RGB565_BLUE_SHIFT)) % 65536

hexToRgb565(hex) ==
    LET colorStr == IF startsWith(hex, 35) THEN substring(hex, 1) ELSE hex
    IN  IF Len(colorStr) >= HEX_COLOR_LENGTH
        THEN LET rgb == strtoul16(colorStr)
                 red == ByteAt(rgb, RED_SHIFT)
                 green == ByteAt(rgb, GREEN_SHIFT)
                 blue == ByteAt(rgb, 0)
             IN  PackRgb565(red, green, blue)
        ELSE LCD_WHITE

\* characters of the generated colour strings: '#', '0', 'F', 'G'
HexAlphabet == {35, 48, 70, 71}

\* "#FF0000", "#fff", "ff0000", "#1A2B3C", "#abcdef", "#07E0FF", "0x1234",
\* " FF0000", "-00001", "+FF000", "#12345678", "123456789", "#FF00GG",
\* "#00FF00", "#0000FF", "##FF0000"
ExtraHexInputs ==
    {<<35, 70, 70, 48, 48, 48, 48>>, <<35, 102, 102, 102>>,
     <<102, 102, 48, 48, 48, 48>>, <<35, 49, 65, 50, 66, 51, 67>>,
     <<35, 97, 98, 99, 100, 101, 102>>, <<35, 48, 55, 69, 48, 70, 70>>,
     <<48, 120, 49, 50, 51, 52>>, <<32, 70, 70, 48, 48, 48, 48>>,
     <<45, 48, 48, 48, 48, 49>>, <<43, 70, 70, 48, 48, 48>>,
     <<35, 49, 50, 51, 52, 53, 54, 55, 56>>, <<49, 50, 51, 52, 53, 54, 55, 56, 57>>,
     <<35, 70, 70, 48, 48, 71, 71>>, <<35, 48, 48, 70, 70, 48, 48>>,
     <<35, 48, 48, 48, 48, 70, 70>>, <<35, 35, 70, 70, 48, 48, 48, 48>>}

HexInputs ==
    UNION {[1..n -> HexAlphabet] : n \in 0..MaxHexLen} \union ExtraHexInputs

FnIdle == fnOut = NoFn

HexCall ==
    /\ fnIn.fn = "hexToRgb565"
    /\ FnIdle
    /\ fnOut' = [fn |-> "hexToRgb565", value |-> hexToRgb565(fnIn.hex)]
    /\ UNCHANGED <<cfg, dmVars, hwVars, fault, lastCall, wrapVars, fnIn, gif>>

InitHex ==
    /\ cfg = DefaultConfig
    /\ g_lcdBus = NULL
    /\ InitCommon
    /\ wrapIn = NoWrap
    /\ wrapOut = <<>>
    /\ \E h \in HexInputs : fnIn = [fn |-> "hexToRgb565", hex |-> h]
    /\ fnOut = NoFn
    /\ gif = GifIdle

NextHex == HexCall

SpecHex == InitHex /\ [][NextHex]_vars

-----------------------------------------------------------------------------
(* Screen regions.  The screen size is what screenWidth() and screenHeight() *)
(* return: the panel's size when ready, else the configured size, which the  *)
(* Safe getters keep positive.                                               *)

UI_STATUS_BAR_HEIGHT == 64
UI_FOOTER_HEIGHT == 70

clampI16_m(value, low, high) ==
    IF value < low THEN low ELSE value
clampI16(value, low, high) ==
    IF value < low THEN low
    ELSE IF value > high THEN high
    ELSE value

UiRect(x, y, w, h) == [x |-> x, y |-> y, w |-> w, h |-> h]

getStatusBarRect(width, height) ==
    LET barHeight == clampI16(UI_STATUS_BAR_HEIGHT, 0, height)
    IN  UiRect(0, 0, width, barHeight)

getFooterRect(width, height) ==
    LET footerHeight == clampI16(UI_FOOTER_HEIGHT, 0, height)
    IN  UiRect(0, height - footerHeight, width, footerHeight)

\* bodyHeight = height - barHeight - footerHeight, computed in int
BodyHeight_m(height, barHeight, footerHeight) == height - barHeight
BodyHeight(height, barHeight, footerHeight) == height - barHeight - footerHeight

getBodyRect(width, height) ==
    LET barHeight == clampI16(UI_STATUS_BAR_HEIGHT, 0, height)
        footerHeight == clampI16(UI_FOOTER_HEIGHT, 0, height)
        bodyHeight == BodyHeight(height, barHeight, footerHeight)
    IN  UiRect(0, barHeight, width, clampI16(bodyHeight, 0, height))

ScreenWidths == {1, 135, 240, 320}

ScreenHeights == 1..MaxSmallHeight \union {240, 320, 32767}

RegionCall(fn) ==
    /\ fnIn.fn = "rect"
    /\ FnIdle
    /\ fnOut' = [fn |-> fn,
                 rect |-> CASE fn = "getStatusBarRect" ->
                                   getStatusBarRect(fnIn.width, fnIn.height)
                            [] fn = "getFooterRect" ->
                                   getFooterRect(fnIn.width, fnIn.height)
                            [] fn = "getBodyRect" ->
                                   getBodyRect(fnIn.width, fnIn.height)]
    /\ UNCHANGED <<cfg, dmVars, hwVars, fault, lastCall, wrapVars, fnIn, gif>>

GetStatusBarRectCall == RegionCall("getStatusBarRect")

GetFooterRectCall == RegionCall("getFooterRect")

GetBodyRectCall == RegionCall("getBodyRect")

InitRegion ==
    /\ cfg = DefaultConfig
    /\ g_lcdBus = NULL
    /\ InitCommon
    /\ wrapIn = NoWrap
    /\ wrapOut = <<>>
    /\ \E w \in ScreenWidths, h \in ScreenHeights :
          fnIn = [fn |-> "rect", width |-> w, height |-> h]
    /\ fnOut = NoFn
    /\ gif = GifIdle

NextRegion ==
    \/ GetStatusBarRectCall
    \/ GetFooterRectCall
    \/ GetBodyRectCall

SpecRegion == InitRegion /\ [][NextRegion]_vars

-----------------------------------------------------------------------------
(* lcdDrawTextWrapped on a panel that has been brought up, with the calls it *)
(* makes on the panel object recorded one by one.                            *)

\* concatenation of a sequence of sequences
RECURSIVE Flatten(_)
Flatten(ss) == IF ss = <<>> THEN <<>> ELSE Head(ss) \o Flatten(Tail(ss))

\* the globals as constructed
ColdState ==
    [lcd |-> NULL, bus |-> NULL, ready |-> FALSE, initializing |-> FALSE,
     initOk |-> FALSE, attempts |-> 0, pins |-> [p \in Pins |-> "Z"],
     gpioLog |-> <<>>, busLog |-> <<>>, panelWrites |-> <<>>]

\* lcdEnsureInit run through all its delays to its return
RECURSIVE RunToDone(_, _, _, _)
RunToDone(s, f, c, r) ==
    LET o == Seg(s, f, c, r)
    IN  IF o.f.pc = "done" THEN o.s ELSE RunToDone(o.s, o.f, c, r)

\* the state after DisplayManager::begin() has completed once
BroughtUp == RunToDone(ColdState, [pc |-> "enter", k |-> 0], DefaultConfig, TRUE)

\* one call on the panel object
PanelOp(op, x, y, w, h, text) ==
    [op |-> op, x |-> x, y |-> y, w |-> w, h |-> h, text |-> text]

\* y of the cursor for line li (from 0)
CursorY_m(startY, li, charH) == startY + (li + 1) * charH
CursorY(startY, li, charH) == startY + li * charH

\* if (startX < 0) startX = 0; the same for startY
ClampStart_m(v) == v
ClampStart(v) == IF v < 0 THEN 0 ELSE v

\* the calls lcdDrawTextWrapped makes on g_lcd, in order
lcdDrawTextWrapped(x, y, text, textSize, clearBg, screenW, screenH) ==
    LET startX == ClampStart(x)
        startY == ClampStart(y)
        charW == 6 * textSize
        charH == 8 * textSize
    IN  IF startX >= screenW \/ startY >= screenH THEN <<>>
        ELSE IF charW <= 0 \/ charH <= 0 THEN <<>>
        ELSE LET lines == lcdWrapText(startX, startY, text, textSize, screenW, screenH)
                 heightPixels == Len(lines) * charH
                 clear == IF clearBg
                          THEN <<PanelOp("fillRect", startX, startY, screenW - startX,
                                         heightPixels, <<>>)>>
                          ELSE <<>>
                 setup == <<PanelOp("setTextSize", 0, 0, 0, 0, <<>>),
                            PanelOp("setTextColor", 0, 0, 0, 0, <<>>)>>
                 draw == Flatten([li \in 1..Len(lines) |->
                            <<PanelOp("setCursor", startX, CursorY(startY, li - 1, charH),
                                      0, 0, <<>>),
                              PanelOp("print", 0, 0, 0, 0, lines[li])>>])
             IN  clear \o setup \o draw

\* "a\nb\nc", "a b\nab", "ab ab ab", "", "\n"
DrawnTexts ==
    {<<97, LF, 98, LF, 99>>, <<97, SPACE, 98, LF, 97, 98>>,
     <<97, 98, SPACE, 97, 98, SPACE, 97, 98>>, <<>>, <<LF>>,
     HelloWorld, Word20, TwelveLines, TwelveWords}

DrawnXs == {-5, 0, 10, 228, 238, 240}

DrawnYs == {-5, 0, 10, 224, 240}

DrawnSizes == {0, 1, 2}

\* DisplayManager::drawTextWrapped -> lcdDrawTextWrapped
DrawTextCall ==
    /\ fnIn.fn = "drawTextWrapped"
    /\ FnIdle
    /\ g_lcd # NULL
    /\ LET ops == lcdDrawTextWrapped(fnIn.x, fnIn.y, fnIn.text, fnIn.textSize,
                                     fnIn.clearBg, LCD_W, LCD_H)
       IN  /\ fnOut' = [fn |-> "drawTextWrapped", ops |-> ops]
           /\ panelWrites' = IF ops = <<>> THEN panelWrites
                             ELSE Append(panelWrites, "drawTextWrapped")
           /\ lastCall' = Call("drawTextWrapped", DrawGuard(g_lcdReady, g_lcd),
                               ops # <<>>, TRUE)
    /\ UNCHANGED <<cfg, dmVars, pins, gpioLog, busLog, fault, wrapVars, fnIn, gif>>

InitText ==
    /\ cfg = DefaultConfig
    /\ g_lcd = BroughtUp.lcd
    /\ g_lcdBus = BroughtUp.bus
    /\ g_lcdReady = BroughtUp.ready
    /\ g_lcdInitializing = BroughtUp.initializing
    /\ g_lcdInitOk = BroughtUp.initOk
    /\ g_lcdInitAttempts = BroughtUp.attempts
    /\ initStack = <<>>
    /\ pins = BroughtUp.pins
    /\ gpioLog = BroughtUp.gpioLog
    /\ busLog = BroughtUp.busLog
    /\ panelWrites = BroughtUp.panelWrites
    /\ fault = FALSE
    /\ lastCall = NoCall
    /\ wrapIn = NoWrap
    /\ wrapOut = <<>>
    /\ \E t \in DrawnTexts, x \in DrawnXs, y \in DrawnYs, size \in DrawnSizes,
          clearBg \in BOOLEAN :
          fnIn = [fn |-> "drawTextWrapped", x |-> x, y |-> y, text |-> t,
                  textSize |-> size, clearBg |-> clearBg]
    /\ fnOut = NoFn
    /\ gif = GifIdle

NextText == DrawTextCall

SpecText == InitText /\ [][NextText]_vars

-----------------------------------------------------------------------------
(* GIF playback.  The decoder class Gif (display/Gif.h) is an external       *)
(* collaborator: begin and playOne succeed or fail, a looping decoder keeps  *)
(* playing, a non-looping one may reach its natural end in any update, and   *)
(* stop takes effect at once or in a later update.  playGifFullScreen is cut *)
(* at its yield() points; the web server is served from loop(), so nothing   *)
(* but the clock moves while it waits.                                       *)

Zero32 == [hi |-> 0, lo |-> 0]

\* a + b modulo 2^32
Add32(a, b) ==
    LET lo == a.lo + b.lo
    IN  [hi |-> (a.hi + b.hi + lo \div 65536) % 65536, lo |-> lo % 65536]

\* a - b modulo 2^32
Sub32(a, b) == Add32(a, Negate32(b))

\* static_cast<int32_t>(v) < 0
IsNegative32(v) == v.hi >= 32768

UpdateOutcomes == {"continue", "end"}

StopOutcomes == {"now", "deferred"}

GifIsPlaying(g) == g.playing

GifSetLoopEnabled(g, enabled) == [g EXCEPT !.loopEnabled = enabled]

GifPlayOne(g, started) == [g EXCEPT !.playing = started, !.stopRequested = FALSE]

GifUpdate(g, u) ==
    IF ~g.playing THEN g
    ELSE IF u = "end" /\ (g.stopRequested \/ ~g.loopEnabled)
         THEN [g EXCEPT !.playing = FALSE, !.stopRequested = FALSE]
    ELSE g

GifStop(g, st) ==
    IF ~g.playing THEN g
    ELSE IF st = "now" THEN [g EXCEPT !.playing = FALSE, !.stopRequested = FALSE]
    ELSE [g EXCEPT !.stopRequested = TRUE]

\* s_gif.setLoopEnabled(timeMs == 0)
LoopForDuration_m(timeMs) == FALSE
LoopForDuration(timeMs) == timeMs = Zero32

\* a < b as unsigned 32-bit values
Lt32(a, b) == a.hi < b.hi \/ (a.hi = b.hi /\ a.lo < b.lo)

\* static_cast<int32_t>(millis() - endMs) < 0
DeadlineAhead_unsigned(now, endMs) == Lt32(now, endMs)
DeadlineAhead_m(now, endMs) == TRUE
DeadlineAhead(now, endMs) == IsNegative32(Sub32(now, endMs))

\* if (s_gif.isPlaying()) { s_gif.stop(); }
StopNeeded(g) == GifIsPlaying(g)

\* the second loop from its head, then the return
DrainLoop(g, u) ==
    IF GifIsPlaying(g)
    THEN [GifUpdate(g, u) EXCEPT !.pc = "drain", !.waited = TRUE]
    ELSE [GifSetLoopEnabled(g, FALSE) EXCEPT !.pc = "idle", !.result = "true"]

\* the code between the two loops
AfterWait(g, st, u) ==
    LET g1 == [g EXCEPT !.playingAtWaitEnd = GifIsPlaying(g)]
        g2 == IF StopNeeded(g1)
              THEN [GifStop(g1, st) EXCEPT !.stopCalled = TRUE]
              ELSE g1
    IN  DrainLoop(g2, u)

\* the first loop from its head
WaitLoop(g, st, u) ==
    IF GifIsPlaying(g) /\ DeadlineAhead(g.now, g.endMs)
    THEN [GifUpdate(g, u) EXCEPT !.pc = "wait", !.waited = TRUE]
    ELSE AfterWait(g, st, u)

\* DisplayManager::clearScreen
ClearScreen ==
    panelWrites' = IF DrawGuard(g_lcdReady, g_lcd)
                   THEN Append(panelWrites, "clearScreen")
                   ELSE panelWrites

\* 0, 1 and 3 ms, and 2^31 + 1 ms
GifDurations == {Zero32, [hi |-> 0, lo |-> 1], [hi |-> 0, lo |-> 3], [hi |-> 32768, lo |-> 1]}

\* millis() at the call: 0, and 2 ms before the counter wraps
GifStartTimes == {Zero32, [hi |-> 65535, lo |-> 65534]}

\* DisplayManager::playGifFullScreen up to its first yield() or its return
PlayGifCall(timeMs, startMs, beginOk, started, st, u) ==
    /\ gif.pc = "idle"
    /\ LET g0 == [gif EXCEPT !.timeMs = timeMs, !.now = startMs, !.endMs = Zero32,
                             !.ticks = 0, !.result = "running", !.session = "none",
                             !.stopCalled = FALSE, !.playingAtWaitEnd = FALSE,
                             !.waited = FALSE]
       IN  IF ~beginOk
           THEN /\ gif' = [g0 EXCEPT !.result = "false"]
                /\ UNCHANGED panelWrites
           ELSE /\ ClearScreen
                /\ LET g1 == GifPlayOne(GifSetLoopEnabled(g0, LoopForDuration(timeMs)),
                                        started)
                   IN  gif' = IF ~started THEN [g1 EXCEPT !.result = "false"]
                              ELSE IF timeMs = Zero32
                                   THEN [g1 EXCEPT !.result = "true",
                                                   !.session = "indefinite"]
                              ELSE WaitLoop([g1 EXCEPT !.endMs = Add32(startMs, timeMs)],
                                            st, u)
    /\ UNCHANGED <<cfg, dmVars, pins, gpioLog, busLog, fault, lastCall, wrapVars, fnVars>>

\* the activation resumes after yield() and runs to the next one or returns
PlayGifResume(st, u) ==
    /\ gif.pc # "idle"
    /\ gif' = IF gif.pc = "wait" THEN WaitLoop(gif, st, u) ELSE DrainLoop(gif, u)
    /\ UNCHANGED <<cfg, dmVars, hwVars, fault, lastCall, wrapVars, fnVars>>

\* a millisecond passes while playGifFullScreen waits
Tick ==
    /\ gif.pc # "idle"
    /\ gif.ticks < MaxTicks
    /\ gif' = [gif EXCEPT !.now = Add32(@, [hi |-> 0, lo |-> 1]), !.ticks = @ + 1]
    /\ UNCHANGED <<cfg, dmVars, hwVars, fault, lastCall, wrapVars, fnVars>>

\* DisplayManager::update, the per-loop frame pump
UpdateCall(u) ==
    /\ gif.pc = "idle"
    /\ gif' = GifUpdate(gif, u)
    /\ UNCHANGED <<cfg, dmVars, hwVars, fault, lastCall, wrapVars, fnVars>>

\* DisplayManager::stopGif
StopGifCall(st) ==
    /\ gif.pc = "idle"
    /\ gif' = [GifStop(gif, st) EXCEPT !.session = "none"]
    /\ ClearScreen
    /\ UNCHANGED <<cfg, dmVars, pins, gpioLog, busLog, fault, lastCall, wrapVars, fnVars>>

InitGif ==
    /\ cfg = DefaultConfig
    /\ g_lcdBus = NULL
    /\ InitCommon
    /\ wrapIn = NoWrap
    /\ wrapOut = <<>>
    /\ InitAux

NextGif ==
    \/ \E timeMs \in GifDurations, startMs \in GifStartTimes, beginOk \in BOOLEAN,
          started \in BOOLEAN, st \in StopOutcomes, u \in UpdateOutcomes :
          PlayGifCall(timeMs, startMs, beginOk, started, st, u)
    \/ \E st \in StopOutcomes, u \in UpdateOutcomes : PlayGifResume(st, u)
    \/ Tick
    \/ \E u \in UpdateOutcomes : UpdateCall(u)
    \/ \E st \in StopOutcomes : StopGifCall(st)

SpecGif == InitGif /\ [][NextGif]_vars

\* the test at the head of the first loop of playGifFullScreen, elapsedMs
\* after the call read startMs = millis() and set endMs = startMs + timeMs
DeadlineTest ==
    /\ fnIn.fn = "deadline"
    /\ FnIdle
    /\ LET endMs == Add32(fnIn.startMs, fnIn.timeMs)
           now == Add32(fnIn.startMs, fnIn.elapsedMs)
       IN  fnOut' = [fn |-> "deadline", endMs |-> endMs, now |-> now,
                     ahead |-> DeadlineAhead(now, endMs)]
    /\ UNCHANGED <<cfg, dmVars, hwVars, fault, lastCall, wrapVars, fnIn, gif>>

\* startMs around 0, around 2^31 and just before the counter wraps; timeMs of
\* 1, 3, 65535, 65536 and 2^31 - 1 ms; the test made 0..MaxTicks ms after the
\* call, around 2^16 ms, around 2^31 ms and 2^32 - 1 ms after it
InitDeadline ==
    /\ cfg = DefaultConfig
    /\ g_lcdBus = NULL
    /\ InitCommon
    /\ wrapIn = NoWrap
    /\ wrapOut = <<>>
    /\ fnIn \in [fn : {"deadline"},
                  startMs : {Zero32, [hi |-> 0, lo |-> 1], [hi |-> 32767, lo |-> 65535],
                             [hi |-> 32768, lo |-> 0], [hi |-> 65535, lo |-> 65534],
                             [hi |-> 65535, lo |-> 65535]},
                  timeMs : {[hi |-> 0, lo |-> 1], [hi |-> 0, lo |-> 3],
                            [hi |-> 0, lo |-> 65535], [hi |-> 1, lo |-> 0],
                            [hi |-> 32767, lo |-> 65535]},
                  elapsedMs : {[hi |-> 0, lo |-> n] : n \in 0..MaxTicks} \union
                              {[hi |-> 0, lo |-> 65534], [hi |-> 0, lo |-> 65535],
                               [hi |-> 1, lo |-> 0], [hi |-> 1, lo |-> 1],
                               [hi |-> 32767, lo |-> 65534],
                               [hi |-> 32767, lo |-> 65535], [hi |-> 32768, lo |-> 0],
                               [hi |-> 32768, lo |-> 2], [hi |-> 65535, lo |-> 65535]}]
    /\ fnOut = NoFn
    /\ gif = GifIdle

NextDeadline == DeadlineTest

SpecDeadline == InitDeadline /\ [][NextDeadline]_vars

\* once stop was asked for, an update of the draining loop ends the playback
DrainEnds == gif.stopRequested /\ \E st \in StopOutcomes : PlayGifResume(st, "end")

\* the activation goes on after a yield() whatever the decoder does
ResumeGoesOn == \E st \in StopOutcomes : PlayGifResume(st, "continue")

\* the running activation keeps running, the clock advances, and the decoder
\* stops within finitely many updates after stop; nothing makes a playback
\* reach its natural end
SpecGifFair ==
    /\ SpecGif
    /\ WF_vars(ResumeGoesOn)
    /\ WF_vars(Tick)
    /\ WF_vars(DrainEnds)

------------------------------------------------------------------------------
(* The drawing endpoints of the HTTP API: single commands and the batch     *)

DEFAULT_POS == 0

DEFAULT_SIZE_SMALL == 10

LCD_BLACK == 0

\* a command object carries its type and the set of optional keys present in
\* it; a key that is present has one fixed value: "color" is "#FF0000", "x" is
\* 7, "fill" is false

\* getColorFromJson(obj, "color"); the colour sent is "#FF0000"
getColorFromJson(keys) ==
    IF "color" \in keys THEN hexToRgb565(<<35, 70, 70, 48, 48, 48, 48>>) ELSE LCD_WHITE

\* the DisplayManager call of a rect or pixel command: handleDrawRect and
\* processBatchRect, handleDrawPixel and processBatchPixel read the fields with
\* doc["x"] | DEFAULT_POS and getInt16(cmd, "x", DEFAULT_POS), doc["fill"] | true
\* and getBool(cmd, "fill", true), which agree on an integer and on a boolean
ShapeCall(cmd, color) ==
    LET posX == IF "x" \in cmd.keys THEN 7 ELSE DEFAULT_POS
        shouldFill == IF "fill" \in cmd.keys THEN FALSE ELSE TRUE
    IN  IF cmd.type = "rect"
        THEN [op |-> IF shouldFill THEN "fillRect" ELSE "drawRect",
              args |-> <<posX, DEFAULT_POS, DEFAULT_SIZE_SMALL, DEFAULT_SIZE_SMALL,
                         color>>]
        ELSE [op |-> "drawPixel", args |-> <<posX, DEFAULT_POS, color>>]

\* handleDrawClear, handleDrawRect, handleDrawPixel: the calls they make
SingleCall(cmd) ==
    IF cmd.type = "clear"
    THEN <<[op |-> "fillScreen",
            args |-> <<IF "color" \in cmd.keys
                       THEN hexToRgb565(<<35, 70, 70, 48, 48, 48, 48>>)
                       ELSE LCD_BLACK>>]>>
    ELSE IF cmd.type \in {"rect", "pixel"}
         THEN <<ShapeCall(cmd, getColorFromJson(cmd.keys))>>
    ELSE <<>>

\* one iteration of the loop of handleDrawBatch: the calls it makes
BatchCall(cmd) ==
    LET color == getColorFromJson(cmd.keys)
    IN  IF cmd.type = "clear"
        THEN <<[op |-> "fillScreen", args |-> <<color>>]>>
        ELSE IF cmd.type \in {"rect", "pixel"}
             THEN <<ShapeCall(cmd, color)>>
        ELSE <<>>

RECURSIVE SeqsUpTo(_, _)
SeqsUpTo(S, n) ==
    IF n = 0 THEN {<<>>}
    ELSE LET shorter == SeqsUpTo(S, n - 1)
         IN  shorter \union {Append(q, e) : q \in shorter, e \in S}

\* the command objects of a request: three recognised types and one that is
\* not recognised
Commands ==
    [type : {"clear", "rect", "pixel", "blink"}, keys : SUBSET {"color", "x", "fill"}]

\* handleDrawBatch from its entry or from a yield() to the next yield() or to
\* the response
HandleDrawBatch ==
    /\ fnIn.fn = "batch"
    /\ LET cur == IF fnOut = NoFn
                  THEN [fn |-> "batch", calls |-> <<>>, processed |-> 0, sent |-> FALSE]
                  ELSE fnOut
       IN  /\ ~cur.sent
           /\ fnOut' = IF cur.processed < Len(fnIn.commands)
                       THEN [cur EXCEPT
                               !.calls = @ \o BatchCall(fnIn.commands[cur.processed + 1]),
                               !.processed = @ + 1]
                       ELSE [cur EXCEPT !.sent = TRUE]
    /\ UNCHANGED <<cfg, dmVars, hwVars, fault, lastCall, wrapVars, fnIn, gif>>

\* POST /api/v1/draw/clear, /rect or /pixel
HandleDrawSingle ==
    /\ fnIn.fn = "single"
    /\ FnIdle
    /\ fnOut' = [fn |-> "single", calls |-> SingleCall(fnIn.commands[1]),
                 processed |-> 1, sent |-> TRUE]
    /\ UNCHANGED <<cfg, dmVars, hwVars, fault, lastCall, wrapVars, fnIn, gif>>

InitBatch ==
    /\ cfg = DefaultConfig
    /\ g_lcdBus = NULL
    /\ InitCommon
    /\ wrapIn = NoWrap
    /\ wrapOut = <<>>
    /\ \/ fnIn \in [fn : {"batch"}, commands : SeqsUpTo(Commands, MaxBatch)]
       \/ fnIn \in [fn : {"single"},
                    commands : {<<c>> : c \in {d \in Commands : d.type # "blink"}}]
    /\ fnOut = NoFn
    /\ gif = GifIdle

NextBatch == HandleDrawBatch \/ HandleDrawSingle

SpecBatch == InitBatch /\ [][NextBatch]_vars

------------------------------------------------------------------------------
(* Firmware update over HTTP: the upload callback and the finish handler    *)

\* otaError after boot, with a record of what the requests did: phase is the
\* position of the current request in START, WRITE*, END | ABORTED; began,
\* chunksOk and ended say that Update.begin succeeded, that every
\* Update.write wrote its full chunk and that Update.end(true) succeeded in
\* the last upload; updateCalls lists the calls made on Update in the last
\* upload, each with the value otaError had at the call; hadUpload says that
\* the finished request had upload events
OtaBoot ==
    [fn |-> "ota", otaError |-> FALSE, phase |-> "idle", began |-> FALSE,
     chunksOk |-> FALSE, ended |-> FALSE, updateCalls |-> <<>>, writes |-> 0,
     requests |-> 0, hadUpload |-> FALSE, report |-> "none", restarted |-> FALSE]

UpdaterCall(name, otaErrorAtCall) == [call |-> name, otaError |-> otaErrorAtCall]

\* handleOtaUpload for one upload event; ok is the result of the Update call
\* the event makes, if it makes one
handleOtaUpload(status, ok) ==
    /\ fnIn.fn = "ota"
    /\ ~fnOut.restarted
    /\ \/ /\ status = "UPLOAD_FILE_START"
          /\ fnOut.phase = "idle"
          /\ fnOut.requests < MaxRequests
          /\ fnOut' = [fnOut EXCEPT !.otaError = ~ok, !.phase = "upload",
                                    !.began = ok, !.chunksOk = TRUE, !.ended = FALSE,
                                    !.updateCalls = <<UpdaterCall("begin", FALSE)>>,
                                    !.writes = 0,
                                    !.requests = @ + 1, !.report = "none"]
       \/ /\ status = "UPLOAD_FILE_WRITE"
          /\ fnOut.phase = "upload"
          /\ fnOut.writes < MaxChunks
          /\ fnOut' = IF ~fnOut.otaError
                      THEN [fnOut EXCEPT !.otaError = ~ok, !.chunksOk = @ /\ ok,
                                         !.updateCalls =
                                             Append(@, UpdaterCall("write", FALSE)),
                                         !.writes = @ + 1]
                      ELSE [fnOut EXCEPT !.writes = @ + 1]
       \/ /\ status = "UPLOAD_FILE_END"
          /\ fnOut.phase = "upload"
          /\ fnOut' = IF ~fnOut.otaError
                      THEN [fnOut EXCEPT !.otaError = ~ok, !.ended = ok,
                                         !.updateCalls =
                                             Append(@, UpdaterCall("end(true)", FALSE)),
                                         !.phase = "done"]
                      ELSE [fnOut EXCEPT !.phase = "done"]
       \/ /\ status = "UPLOAD_FILE_ABORTED"
          /\ fnOut.phase = "upload"
          /\ ok
          /\ fnOut' = [fnOut EXCEPT
                         !.updateCalls = Append(@, UpdaterCall("end()", fnOut.otaError)),
                         !.otaError = TRUE, !.phase = "done"]
    /\ UNCHANGED <<cfg, dmVars, hwVars, fault, lastCall, wrapVars, fnIn, gif>>

\* handleOtaFinished, called when the request is complete: after the upload
\* events of the request, or with none when the request carried no file
handleOtaFinished ==
    /\ fnIn.fn = "ota"
    /\ ~fnOut.restarted
    /\ \/ fnOut.phase = "done"
       \/ fnOut.phase = "idle" /\ fnOut.requests < MaxRequests
    /\ fnOut' = [fnOut EXCEPT
                   !.hadUpload = (fnOut.phase = "done"),
                   !.requests = IF fnOut.phase = "idle" THEN @ + 1 ELSE @,
                   !.report = IF fnOut.otaError THEN "Error" ELSE "Upload successful",
                   !.restarted = ~fnOut.otaError,
                   !.phase = "idle"]
    /\ UNCHANGED <<cfg, dmVars, hwVars, fault, lastCall, wrapVars, fnIn, gif>>

InitOta ==
    /\ cfg = DefaultConfig
    /\ g_lcdBus = NULL
    /\ InitCommon
    /\ wrapIn = NoWrap
    /\ wrapOut = <<>>
    /\ fnIn = [fn |-> "ota"]
    /\ fnOut = OtaBoot
    /\ gif = GifIdle

NextOta ==
    \/ \E status \in {"UPLOAD_FILE_START", "UPLOAD_FILE_WRITE", "UPLOAD_FILE_END",
                      "UPLOAD_FILE_ABORTED"}, ok \in BOOLEAN :
          handleOtaUpload(status, ok)
    \/ handleOtaFinished

SpecOta == InitOta /\ [][NextOta]_vars

------------------------------------------------------------------------------
(* GIF upload: handleGifUpload, registered both as the upload callback and  *)
(* as the handler of the completed request                                   *)

\* the statics of handleGifUpload after boot, the file at the target path and
\* a record of the current upload: file is "absent", "old" (a complete file of
\* an earlier upload), "partial" (opened for writing and not, or not
\* completely, filled) or "complete"; opened and chunksOk say that
\* LittleFS.open succeeded and that every chunk was written completely
GifUploadBoot(file) ==
    [fn |-> "gifUpload", uploadError |-> FALSE, gifFile |-> FALSE, file |-> file,
     phase |-> "idle", opened |-> FALSE, chunksOk |-> FALSE, writes |-> 0,
     requests |-> 0, result |-> "none", responses |-> 0]

\* sendGifUploadResult
sendGifUploadResult(st) ==
    [st EXCEPT !.result = IF st.uploadError THEN "error" ELSE "success",
               !.responses = @ + 1]

\* handleGifUpload for one upload event, or for the completed request, which
\* finds upload.status still UPLOAD_FILE_END; ok is the result of the file
\* system call the event makes: open at START, the write loop at WRITE (false:
\* a write returned 0), remove at ABORTED
handleGifUpload(status, ok) ==
    /\ fnIn.fn = "gifUpload"
    /\ \/ /\ status = "UPLOAD_FILE_START"
          /\ fnOut.phase \in {"idle", "answered"}
          /\ fnOut.requests < MaxRequests
          /\ fnOut' = [fnOut EXCEPT
                         !.uploadError = ~ok, !.gifFile = ok, !.opened = ok,
                         !.file = IF ok THEN "partial" ELSE @,
                         !.chunksOk = TRUE, !.writes = 0, !.phase = "upload",
                         !.requests = @ + 1, !.result = "none", !.responses = 0]
       \/ /\ status = "UPLOAD_FILE_WRITE"
          /\ fnOut.phase = "upload"
          /\ fnOut.writes < MaxChunks
          /\ fnOut' = IF ~fnOut.uploadError /\ fnOut.gifFile
                      THEN [fnOut EXCEPT !.uploadError = ~ok, !.chunksOk = @ /\ ok,
                                         !.writes = @ + 1]
                      ELSE [fnOut EXCEPT !.chunksOk = FALSE, !.writes = @ + 1]
       \/ /\ status = "UPLOAD_FILE_END"
          /\ fnOut.phase \in {"upload", "ended"}
          /\ ok
          /\ fnOut' = sendGifUploadResult(
                         [fnOut EXCEPT
                            !.gifFile = FALSE,
                            !.file = IF fnOut.gifFile /\ fnOut.chunksOk
                                     THEN "complete" ELSE @,
                            !.phase = IF @ = "upload" THEN "ended" ELSE "answered"])
       \/ /\ status = "UPLOAD_FILE_ABORTED"
          /\ fnOut.phase = "upload"
          /\ fnOut' = sendGifUploadResult(
                         [fnOut EXCEPT
                            !.gifFile = FALSE,
                            !.file = IF ok THEN "absent" ELSE @,
                            !.uploadError = TRUE,
                            !.phase = "answered"])
    /\ UNCHANGED <<cfg, dmVars, hwVars, fault, lastCall, wrapVars, fnIn, gif>>

InitGifUpload ==
    /\ cfg = DefaultConfig
    /\ g_lcdBus = NULL
    /\ InitCommon
    /\ wrapIn = NoWrap
    /\ wrapOut = <<>>
    /\ fnIn = [fn |-> "gifUpload"]
    /\ fnOut \in {GifUploadBoot(file) : file \in {"absent", "old"}}
    /\ gif = GifIdle

NextGifUpload ==
    \E status \in {"UPLOAD_FILE_START", "UPLOAD_FILE_WRITE", "UPLOAD_FILE_END",
                   "UPLOAD_FILE_ABORTED"}, ok \in BOOLEAN :
        handleGifUpload(status, ok)

SpecGifUpload == InitGifUpload /\ [][NextGifUpload]_vars

------------------------------------------------------------------------------
(* Persistence of the configuration: ConfigManager::load and ::save         *)

\* ConfigManager::load into a freshly constructed ConfigManager: the Wi-Fi
\* credentials are taken from the document, each lcd_* field from its key if
\* the document has it and from the member's initial value otherwise; the
\* document is the two credentials and a function from the lcd_* keys present
\* to their values
load(doc) ==
    [ssid |-> doc.wifi_ssid,
     password |-> doc.wifi_password,
     lcd |-> [f \in DOMAIN DefaultConfig |->
                 IF f \in DOMAIN doc.lcd THEN doc.lcd[f] ELSE DefaultConfig[f]]]

\* the document ConfigManager::save writes: the credentials and the keys
\* lcd_enable, lcd_w, lcd_h and lcd_rotation
save(ssid, password, lcd) ==
    [wifi_ssid |-> ssid,
     wifi_password |-> password,
     lcd |-> [f \in {"lcd_enable", "lcd_w", "lcd_h", "lcd_rotation"} \cap DOMAIN lcd |->
                 lcd[f]]]

\* setup(): configManager.load() on the object constructed at start-up; the
\* record keeps what a successful save since the last boot had in memory
ConfigBoot ==
    /\ fnIn.fn = "config"
    /\ fnOut.boots < MaxBoots
    /\ cfg' = load(fnOut.file).lcd
    /\ fnOut' = [fnOut EXCEPT !.running = TRUE, !.boots = @ + 1,
                              !.ssid = load(fnOut.file).ssid,
                              !.password = load(fnOut.file).password,
                              !.reloaded = fnOut.saveDone,
                              !.saveDone = FALSE]
    /\ UNCHANGED <<dmVars, hwVars, fault, lastCall, wrapVars, fnIn, gif>>

\* handleWifiConnect: an empty ssid is refused; after a successful connection
\* the credentials are set and saved, saveOk being the result of save()
handleWifiConnect(ssid, password, connectOk, saveOk) ==
    /\ fnIn.fn = "config"
    /\ fnOut.running
    /\ fnOut' = IF ssid = "" \/ ~connectOk THEN fnOut
                ELSE IF ~saveOk
                     THEN [fnOut EXCEPT !.ssid = ssid, !.password = password]
                ELSE [fnOut EXCEPT
                        !.ssid = ssid, !.password = password,
                        !.file = save(ssid, password, cfg),
                        !.saveDone = TRUE,
                        !.atSave = [ssid |-> ssid, password |-> password, lcd |-> cfg]]
    /\ UNCHANGED <<cfg, dmVars, hwVars, fault, lastCall, wrapVars, fnIn, gif>>

\* the device is off; config.json holds credentials and one of the panel
\* configurations, every lcd_* key written out
InitConfig ==
    /\ cfg = DefaultConfig
    /\ g_lcdBus = NULL
    /\ InitCommon
    /\ wrapIn = NoWrap
    /\ wrapOut = <<>>
    /\ fnIn = [fn |-> "config"]
    /\ \E c \in LoadedConfigs :
          fnOut = [fn |-> "config", running |-> FALSE, boots |-> 0, ssid |-> "",
                   password |-> "",
                   file |-> [wifi_ssid |-> "home", wifi_password |-> "secret",
                             lcd |-> c],
                   saveDone |-> FALSE, reloaded |-> FALSE,
                   atSave |-> [ssid |-> "", password |-> "", lcd |-> DefaultConfig]]
    /\ gif = GifIdle

NextConfig ==
    \/ ConfigBoot
    \/ \E ssid \in {"", "home", "office"}, password \in {"", "secret"},
          connectOk \in BOOLEAN, saveOk \in BOOLEAN :
          handleWifiConnect(ssid, password, connectOk, saveOk)

SpecConfig == InitConfig /\ [][NextConfig]_vars

-----------------------------------------------------------------------------
(* Claims                                                                   *)

\* C1: while the panel is not ready (ready flag false or no panel handle), a
\* call of any of the fourteen drawing primitives writes nothing to the panel,
\* changes no DisplayManager state, no pin and no bus traffic, and returns
\* normally (no fault).
C1_NotReadyPrimitiveIsNoOp ==
    [][((\E p \in Primitives : PrimitiveCall(p)) /\ ~(g_lcdReady /\ g_lcd # NULL))
          => UNCHANGED <<dmVars, hwVars, fault>>]_vars

\* a primitive was called during bring-up: the handle exists, ready is false
C1_Witness ==
    /\ lastCall.op \in Primitives
    /\ ~lastCall.ready
    /\ ~lastCall.wrote
    /\ g_lcd # NULL
    /\ ~g_lcdReady

\* C2: a drawTextWrapped call made while the panel is not ready does not
\* read through the panel handle, writes nothing to the panel and does not
\* fault.
C2_TextCallNoOpWhenNotReady ==
    (lastCall.op = "drawTextWrapped" /\ ~lastCall.ready)
        => (~lastCall.deref /\ ~lastCall.wrote /\ ~fault)

\* C3: an init call made while the panel is ready or a bring-up is in
\* progress changes no state and starts no bring-up; whatever the interleaving
\* of init calls at the yield points, at most one bring-up is in progress.
C3_SingleBringUp ==
    /\ [](Len(initStack) <= 1)
    /\ [][(BeginCall /\ (g_lcdReady \/ g_lcdInitializing))
              => UNCHANGED <<dmVars, hwVars, fault>>]_vars

\* an init call returned early while a bring-up was suspended at a yield
C3_Witness ==
    /\ lastCall.op = "begin_returned_early"
    /\ g_lcdInitializing
    /\ Len(initStack) = 1
    /\ busLog # <<>>

BusBeginFailed == \E i \in DOMAIN busLog : busLog[i][1] = "begin" /\ busLog[i][2] = FALSE

\* C4: an init attempt during which the transport adaptor's begin returned
\* failure ends with ready false and initOk false, and the process keeps
\* running.
C4_FailedBusBeginIsFatal ==
    (g_lcdInitAttempts > 0 /\ initStack = <<>> /\ BusBeginFailed)
        => (~g_lcdReady /\ ~g_lcdInitOk /\ ~fault)

LastBusOp == busLog[Len(busLog)][1]

\* C5: for either polarity and any configured chip-select pin, begin leaves
\* the pin at the inactive level (LOW if active-high, HIGH if active-low) and
\* the beginWrite that follows drives it to the opposite level, the configured
\* active one; with no chip-select pin configured no pin is ever written.
C5_ChipSelectPolarity ==
    LET n == Len(busLog)
        cs == g_lcdBus.cs
        ah == g_lcdBus.csActiveHigh
    IN  /\ (n >= 1 /\ LastBusOp = "begin" /\ cs # GFX_NOT_DEFINED)
              => pins[cs] = (IF ah THEN "LOW" ELSE "HIGH")
        /\ (n >= 2 /\ busLog[n - 1][1] = "begin" /\ LastBusOp = "beginWrite"
               /\ cs # GFX_NOT_DEFINED)
              => pins[cs] = (IF ah THEN "HIGH" ELSE "LOW")
        /\ cs = GFX_NOT_DEFINED
              => (gpioLog = <<>> /\ \A p \in Pins : pins[p] = "Z")

\* begin then beginWrite on an active-low bus: chip select went HIGH, then LOW
C5_Witness ==
    /\ Len(busLog) >= 2
    /\ busLog[Len(busLog) - 1][1] = "begin"
    /\ LastBusOp = "beginWrite"
    /\ g_lcdBus.cs # GFX_NOT_DEFINED
    /\ ~g_lcdBus.csActiveHigh
    /\ Len(gpioLog) = 2
    /\ gpioLog[1].level = "HIGH"
    /\ pins[g_lcdBus.cs] = "LOW"

\* C6: endWrite leaves the chip-select level exactly as it was when the
\* keep-asserted flag of the configuration is true, and drives chip select to
\* the inactive level when the flag is false.
C6_EndWriteHonoursKeepAsserted ==
    [][(CallBusEndWrite /\ g_lcdBus.cs # GFX_NOT_DEFINED)
          => pins'[g_lcdBus.cs] =
                 (IF getLCDKeepCsAssertedSafe(cfg)
                  THEN pins[g_lcdBus.cs]
                  ELSE (IF g_lcdBus.csActiveHigh THEN "LOW" ELSE "HIGH"))]_vars

\* the traffic put on the transport adaptor by the firmware itself
PanelTraffic ==
    SelectSeq(busLog, LAMBDA e : e[1] \in {"beginWrite", "cmd", "data", "endWrite"})

CommandBytes(t) ==
    LET c == SelectSeq(t, LAMBDA e : e[1] = "cmd")
    IN  [i \in 1..Len(c) |-> c[i][2]]

\* the data bytes that directly follow the entry at index i of t
DataAfter(t, i) ==
    LET stop == CHOOSE j \in (i + 1)..(Len(t) + 1) :
                    /\ \A k \in (i + 1)..(j - 1) : t[k][1] = "data"
                    /\ (j = Len(t) + 1 \/ t[j][1] # "data")
    IN  [k \in 1..(stop - i - 1) |-> t[i + k][2]]

\* the data bytes that follow command byte c (issued once) in t
DataOf(t, c) ==
    DataAfter(t, CHOOSE i \in DOMAIN t : t[i][1] = "cmd" /\ t[i][2] = c)

\* 0x11 0xB2 0x35 0x36 0x3A
BringUpHead == <<17, 178, 53, 54, 58>>
\* 0xE0 0xE1 0xE4 0x21 0x29 0x2A 0x2B 0x2C
BringUpTail == <<224, 225, 228, 33, 41, 42, 43, 44>>
\* 0xB7 0xBB 0xC0 0xC2 0xC3 0xC4 0xC6 0xD0 0xD6
PowerControlCommands == {183, 187, 192, 194, 195, 196, 198, 208, 214}

\* C7: the vendor bring-up issues, inside exactly one beginWrite/endWrite
\* bracket and in this order, 0x11, 0xB2, 0x35, 0x36, 0x3A (data 0x05), the
\* power-control block, 0xE0 (14 data bytes), 0xE1 (14), 0xE4 (3), 0x21, 0x29,
\* column address-set, row address-set, RAM-write; data bytes directly follow
\* their command, and no command or data byte is issued before beginWrite or
\* after endWrite.
C7_VendorBringUpOrder ==
    LET t == PanelTraffic
        n == Len(t)
        cmds == CommandBytes(t)
        nc == Len(cmds)
    IN  /\ \A i \in 1..n :
               t[i][1] \in {"cmd", "data"}
                  => (t[1][1] = "beginWrite" /\ \A j \in 1..i : t[j][1] # "endWrite")
        /\ g_lcdReady =>
               /\ n >= 2
               /\ t[1][1] = "beginWrite"
               /\ t[n][1] = "endWrite"
               /\ \A i \in 2..(n - 1) : t[i][1] \in {"cmd", "data"}
               /\ nc > Len(BringUpHead) + Len(BringUpTail)
               /\ SubSeq(cmds, 1, Len(BringUpHead)) = BringUpHead
               /\ SubSeq(cmds, nc - Len(BringUpTail) + 1, nc) = BringUpTail
               /\ \A i \in (Len(BringUpHead) + 1)..(nc - Len(BringUpTail)) :
                      cmds[i] \in PowerControlCommands
               /\ DataOf(t, 58) = <<5>>
               /\ Len(DataOf(t, 224)) = 14
               /\ Len(DataOf(t, 225)) = 14
               /\ Len(DataOf(t, 228)) = 3

\* the bring-up ran to its end: the bracket is closed and RAM-write was last
C7_Witness ==
    /\ g_lcdReady
    /\ Len(PanelTraffic) > 2
    /\ PanelTraffic[Len(PanelTraffic)][1] = "endWrite"
    /\ PanelTraffic[Len(PanelTraffic) - 1] = <<"cmd", 44>>

\* C8: with a negative configured backlight GPIO the backlight-on step writes
\* no pin, and with a negative configured reset GPIO the hardware-reset step
\* writes no pin.
C8_NegativeGpioIsNotConnected ==
    /\ cfg.lcd_backlight_gpio < 0
          => \A i \in DOMAIN gpioLog : gpioLog[i].by # "backlight"
    /\ cfg.lcd_rst_gpio < 0
          => \A i \in DOMAIN gpioLog : gpioLog[i].by # "reset"

\* C9: once ready is true it stays true under every public call; whenever
\* ready is true, initOk is true, initializing is false and the handle is
\* non-null, so isReady() equals the (ready and handle) guard of the
\* primitives.
C9_ReadyIsStableAndConsistent ==
    /\ [](g_lcdReady => (g_lcdInitOk /\ ~g_lcdInitializing /\ g_lcd # NULL))
    /\ [](isReady <=> (g_lcdReady /\ g_lcd # NULL))
    /\ [][g_lcdReady => g_lcdReady']_vars

\* ready, and public calls (a repeated init, a drawing call) made after it
C9_Witness ==
    /\ g_lcdReady
    /\ initStack = <<>>
    /\ lastCall.op \in Primitives
    /\ lastCall.wrote
    /\ Len(panelWrites) = MaxPanelWrites

\* the segments of s between the characters of seps, empty ones included
RECURSIVE SplitOn(_, _)
SplitOn(s, seps) ==
    IF \E i \in DOMAIN s : s[i] \in seps
    THEN LET i == CHOOSE k \in DOMAIN s :
                      s[k] \in seps /\ \A j \in 1..(k - 1) : s[j] \notin seps
         IN  <<SubSeq(s, 1, i - 1)>> \o SplitOn(SubSeq(s, i + 1, Len(s)), seps)
    ELSE <<s>>

NonEmpty(ss) == SelectSeq(ss, LAMBDA x : x # <<>>)

WithoutCR(text) == SelectSeq(text, LAMBDA c : c # CR)

\* the words of a text: maximal runs without space, tab or newline
WordsOf(text) == NonEmpty(SplitOn(WithoutCR(text), {SPACE, TAB, LF}))

RECURSIVE JoinWords(_)
JoinWords(ws) ==
    IF ws = <<>> THEN <<>>
    ELSE IF Len(ws) = 1 THEN ws[1]
    ELSE ws[1] \o <<SPACE>> \o JoinWords(Tail(ws))

\* greedy fill: each line takes the longest run of words that fits the budget
RECURSIVE GreedyLines(_, _)
GreedyLines(ws, budget) ==
    IF ws = <<>> THEN <<>>
    ELSE LET fits == {k \in 1..Len(ws) : Len(JoinWords(SubSeq(ws, 1, k))) <= budget}
             n == IF fits = {} THEN 1
                  ELSE CHOOSE k \in fits : \A j \in fits : j <= k
         IN  <<JoinWords(SubSeq(ws, 1, n))>>
                 \o GreedyLines(SubSeq(ws, n + 1, Len(ws)), budget)

\* the greedy wrap of a text: every newline ends a line (an empty one when
\* nothing precedes it), the text after the last newline adds lines only
\* when it has words, and an empty result is one empty line
GreedyWrap(text, budget) ==
    LET ps == SplitOn(WithoutCR(text), {LF})
        Ended(p) == IF WordsOf(p) = <<>> THEN << <<>> >> ELSE GreedyLines(WordsOf(p), budget)
        ls == Flatten([i \in 1..Len(ps) |->
                         IF i < Len(ps) THEN Ended(ps[i])
                         ELSE GreedyLines(WordsOf(ps[i]), budget)])
    IN  IF ls = <<>> THEN << <<>> >> ELSE ls

WrapBudget == MaxCharsPerLine(wrapIn.startX, wrapIn.textSize, LCD_W)

WrapLineCap ==
    LET m == MaxLines(wrapIn.startY, wrapIn.textSize, LCD_H)
    IN  IF m < MAX_LINE_SLOTS THEN m ELSE MAX_LINE_SLOTS

\* the case of C10: the call was made, there is room, every word fits the
\* column budget and the greedy wrap needs no more lines than the caps allow
WrapCalled == lastCall.op = "lcdWrapText"

WrapInScope ==
    /\ WrapCalled
    /\ wrapIn.textSize > 0
    /\ WrapBudget > 0
    /\ \A i \in DOMAIN WordsOf(wrapIn.text) : Len(WordsOf(wrapIn.text)[i]) <= WrapBudget
    /\ Len(GreedyWrap(wrapIn.text, WrapBudget)) <= WrapLineCap

\* C10: for a text whose words all fit the column budget and whose wrapped
\* result stays within the line caps, the wrap is lossless (the lines hold
\* exactly the words of the text, in order, joined by single spaces) and
\* greedy (a line is broken, other than at a newline, only where the next word
\* would not fit after one space); "Hello World" at a budget of 5 columns
\* gives "Hello", "World".
C10_WrapGreedyLossless ==
    WrapInScope =>
        /\ Flatten([i \in DOMAIN wrapOut |-> WordsOf(wrapOut[i])]) = WordsOf(wrapIn.text)
        /\ \A i \in DOMAIN wrapOut : wrapOut[i] = JoinWords(WordsOf(wrapOut[i]))
        /\ wrapOut = GreedyWrap(wrapIn.text, WrapBudget)
        /\ (wrapIn.text = HelloWorld /\ WrapBudget = 5)
              => wrapOut = << <<72, 101, 108, 108, 111>>, <<87, 111, 114, 108, 100>> >>

\* "Hello World" was wrapped at 5 columns into two lines
C10_Witness ==
    /\ WrapInScope
    /\ wrapIn.text = HelloWorld
    /\ WrapBudget = 5
    /\ Len(wrapOut) = 2

\* the call was made with a positive glyph size and positive budgets
WrapPositive ==
    /\ WrapCalled
    /\ wrapIn.textSize > 0
    /\ WrapBudget > 0
    /\ WrapLineCap > 0

IsPrefix(a, b) == Len(a) <= Len(b) /\ a = SubSeq(b, 1, Len(a))

WrapOutWords == Flatten([i \in DOMAIN wrapOut |-> WordsOf(wrapOut[i])])

LongWord(word) == Len(word) > WrapBudget

CapsNotReached == Len(GreedyWrap(wrapIn.text, WrapBudget)) <= WrapLineCap

\* C11: a word longer than the column budget is never split: the words of the
\* returned lines are whole words of the text, in order; while the line caps
\* are not reached every word of the text is there, and a line holding a word
\* longer than the budget holds that word and nothing else (the pending line
\* was flushed before it, the next word starts a new line); a 20-character
\* word at a budget of 5 columns gives a line that is exactly that word.
C11_LongWordKeptWhole ==
    WrapPositive =>
        /\ IsPrefix(WrapOutWords, WordsOf(wrapIn.text))
        /\ CapsNotReached =>
              /\ WrapOutWords = WordsOf(wrapIn.text)
              /\ \A i \in DOMAIN wrapOut :
                    (\E k \in DOMAIN WordsOf(wrapOut[i]) : LongWord(WordsOf(wrapOut[i])[k]))
                        => /\ Len(WordsOf(wrapOut[i])) = 1
                           /\ wrapOut[i] = WordsOf(wrapOut[i])[1]
              /\ (WrapBudget = 5 /\ \E k \in DOMAIN WordsOf(wrapIn.text) :
                                       WordsOf(wrapIn.text)[k] = Word20)
                    => \E i \in DOMAIN wrapOut : wrapOut[i] = Word20

\* "ab ccc...c ba" was wrapped at 5 columns: the long word is the second of
\* three lines
C11_Witness ==
    /\ WrapPositive
    /\ CapsNotReached
    /\ WrapBudget = 5
    /\ Len(wrapOut) = 3
    /\ wrapOut[1] = <<97, 98>>
    /\ wrapOut[2] = Word20
    /\ wrapOut[3] = <<98, 97>>

LineFits(line) == Len(line) * (6 * wrapIn.textSize) <= LCD_W - wrapIn.startX

C13_LineCaps ==
    WrapPositive =>
        /\ Len(wrapOut) <= WrapLineCap
        /\ IsPrefix(wrapOut, GreedyWrap(wrapIn.text, WrapBudget))
        /\ (Len(GreedyWrap(wrapIn.text, WrapBudget)) > MAX_LINE_SLOTS
              /\ MaxLines(wrapIn.startY, wrapIn.textSize, LCD_H) >= MAX_LINE_SLOTS)
              => Len(wrapOut) = MAX_LINE_SLOTS

\* the twelve one-letter lines were cut to ten
C13_Witness ==
    /\ WrapPositive
    /\ wrapIn.text = TwelveLines
    /\ MaxLines(wrapIn.startY, wrapIn.textSize, LCD_H) >= MAX_LINE_SLOTS
    /\ Len(wrapOut) = MAX_LINE_SLOTS
    /\ \A i \in DOMAIN wrapOut : wrapOut[i] = <<97>>

WrapDegenerate ==
    \/ wrapIn.textSize <= 0
    \/ WrapBudget <= 0
    \/ MaxLines(wrapIn.startY, wrapIn.textSize, LCD_H) <= 0
    \/ WordsOf(wrapIn.text) = <<>> /\ \A i \in DOMAIN wrapIn.text : wrapIn.text[i] # LF

\* C14: the result of the word wrap has at least one entry; when the usable
\* column count or row count is zero or negative, or the text has no words
\* and no newline, the result is exactly one empty line.
C14_NeverEmpty ==
    WrapCalled =>
        /\ Len(wrapOut) >= 1
        /\ WrapDegenerate => wrapOut = << <<>> >>

\* a text of separators only was wrapped with room on the panel
C14_Witness ==
    /\ WrapPositive
    /\ wrapIn.text = <<CR, SPACE, TAB>>
    /\ wrapOut = << <<>> >>

HexCalled == fnOut # NoFn /\ fnOut.fn = "hexToRgb565"

\* the argument without one leading '#'
HexStripped == IF fnIn.hex # <<>> /\ Head(fnIn.hex) = 35 THEN Tail(fnIn.hex) ELSE fnIn.hex

AllHexDigits(str) == \A i \in DOMAIN str : HexVal(str[i]) >= 0

\* the byte written by the two hex digits at positions i and i + 1
HexByte(str, i) == 16 * HexVal(str[i]) + HexVal(str[i + 1])

\* 5 bits of red, 6 of green, 5 of blue
Rgb565Of(str) ==
    (HexByte(str, 1) \div 8) * 2048 + (HexByte(str, 3) \div 4) * 32 + (HexByte(str, 5) \div 8)

\* C15: hexToRgb565 agrees with the reference: after one optional leading '#'
\* is removed, fewer than 6 characters give 0xFFFF and exactly 6 hex digits
\* RRGGBB give ((R & 0xF8) << 8) | ((G & 0xFC) << 3) | (B >> 3); "#FF0000"
\* gives 0xF800 and "#fff" gives 0xFFFF.
C15_HexToRgb565Reference ==
    HexCalled =>
        /\ Len(HexStripped) < 6 => fnOut.value = 65535
        /\ (Len(HexStripped) = 6 /\ AllHexDigits(HexStripped))
              => fnOut.value = Rgb565Of(HexStripped)
        /\ fnIn.hex = <<35, 70, 70, 48, 48, 48, 48>> => fnOut.value = 63488
        /\ fnIn.hex = <<35, 102, 102, 102>> => fnOut.value = 65535

\* "#1A2B3C" was converted to 0x1947
C15_Witness ==
    /\ HexCalled
    /\ fnIn.hex = <<35, 49, 65, 50, 66, 51, 67>>
    /\ fnOut.value = 6471

\* C16: every argument that is not a valid RRGGBB colour (after the optional
\* '#': not exactly 6 characters, or a character that is no hex digit) gives
\* 0xFFFF.
C16_MalformedIsWhite ==
    (HexCalled /\ ~(Len(HexStripped) = 6 /\ AllHexDigits(HexStripped)))
        => fnOut.value = 65535

Min(a, b) == IF a < b THEN a ELSE b

Max(a, b) == IF a > b THEN a ELSE b

RegionCalled(fn) == fnOut # NoFn /\ fnOut.fn = fn

\* C17: on a screen of width w and height h > 0 the status bar is
\* {0, 0, w, min(64, h)}, the footer {0, h - min(70, h), w, min(70, h)} and
\* the body {0, min(64, h), w, max(0, h - min(64, h) - min(70, h))}; on a
\* 240x240 screen the body is {0, 64, 240, 106}.
C17_Regions ==
    LET w == fnIn.width
        h == fnIn.height
    IN  /\ RegionCalled("getStatusBarRect")
            => fnOut.rect = [x |-> 0, y |-> 0, w |-> w, h |-> Min(64, h)]
        /\ RegionCalled("getFooterRect")
            => fnOut.rect = [x |-> 0, y |-> h - Min(70, h), w |-> w, h |-> Min(70, h)]
        /\ RegionCalled("getBodyRect")
            => /\ fnOut.rect = [x |-> 0, y |-> Min(64, h), w |-> w,
                                h |-> Max(0, h - Min(64, h) - Min(70, h))]
               /\ (w = 240 /\ h = 240)
                     => fnOut.rect = [x |-> 0, y |-> 64, w |-> 240, h |-> 106]

\* the body of the 240x240 screen was computed
C17_Witness ==
    /\ RegionCalled("getBodyRect")
    /\ fnIn.width = 240
    /\ fnIn.height = 240
    /\ fnOut.rect.h = 106

TextDrawn == fnOut # NoFn /\ fnOut.fn = "drawTextWrapped"

\* the start is on the panel and the glyph size is positive
TextInBounds ==
    /\ fnIn.x >= 0 /\ fnIn.x < LCD_W
    /\ fnIn.y >= 0 /\ fnIn.y < LCD_H
    /\ fnIn.textSize > 0

OpsOf(kind) == SelectSeq(fnOut.ops, LAMBDA o : o.op = kind)

\* position in the call sequence of the i-th call of a kind
OpIndex(kind, i) ==
    CHOOSE k \in DOMAIN fnOut.ops :
        /\ fnOut.ops[k].op = kind
        /\ Cardinality({j \in 1..k : fnOut.ops[j].op = kind}) = i

WrappedLines ==
    lcdWrapText(fnIn.x, fnIn.y, fnIn.text, fnIn.textSize, LCD_W, LCD_H)

\* C18: on a ready panel, with the start on the panel and a text that wraps
\* to n lines, drawTextWrapped prints exactly the n lines in order, line i
\* (from 0) after the cursor was set to x = startX, y = startY + i * 8 * size;
\* with clearBg it fills exactly one rectangle, at (startX, startY), of width
\* screen width - startX and height n * 8 * size, before anything else, and
\* without clearBg it fills none; three lines from y = 10 at size 1 are
\* drawn at y = 10, 18, 26 over a cleared height of 24.
C18_TextLinesAndClearedBox ==
    (TextDrawn /\ isReady /\ TextInBounds) =>
        LET n == Len(WrappedLines)
            charH == 8 * fnIn.textSize
        IN  /\ Len(OpsOf("print")) = n
            /\ Len(OpsOf("setCursor")) = n
            /\ \A i \in 1..n :
                 /\ OpsOf("print")[i].text = WrappedLines[i]
                 /\ OpsOf("setCursor")[i].x = fnIn.x
                 /\ OpsOf("setCursor")[i].y = fnIn.y + (i - 1) * charH
                 /\ OpIndex("print", i) = OpIndex("setCursor", i) + 1
            /\ fnIn.clearBg =>
                 /\ Len(OpsOf("fillRect")) = 1
                 /\ fnOut.ops[1] = [op |-> "fillRect", x |-> fnIn.x, y |-> fnIn.y,
                                    w |-> LCD_W - fnIn.x, h |-> n * charH, text |-> <<>>]
            /\ ~fnIn.clearBg => OpsOf("fillRect") = <<>>
            /\ (n = 3 /\ fnIn.y = 10 /\ fnIn.textSize = 1)
                 => /\ [i \in 1..3 |-> OpsOf("setCursor")[i].y] = <<10, 18, 26>>
                    /\ fnIn.clearBg => fnOut.ops[1].h = 24

\* "a\nb\nc" was drawn from (10, 10) at size 1 with the background cleared
C18_Witness ==
    /\ TextDrawn
    /\ isReady
    /\ fnIn.text = <<97, LF, 98, LF, 99>>
    /\ fnIn.x = 10 /\ fnIn.y = 10 /\ fnIn.textSize = 1 /\ fnIn.clearBg
    /\ Len(OpsOf("print")) = 3
    /\ fnOut.ops[1].op = "fillRect"

\* playGifFullScreen(path, 0) returned true and neither stopGif nor another
\* playGifFullScreen was called since
PlayingIndefinitely == gif.session = "indefinite"

TimedCall == gif.timeMs # Zero32

\* C20: playGifFullScreen with a duration > 0 that started the playback
\* eventually returns true (the clock advancing, the decoder stopping within
\* finitely many updates after stop); when it has returned true the decoder
\* is not playing and looping is disabled; and it called the decoder's stop
\* only if the playback was still running when the wait ended.
C20_TimedPlaybackReturns ==
    /\ (TimedCall /\ gif.result = "running") ~> (TimedCall /\ gif.result = "true")
    /\ []((TimedCall /\ gif.result = "true")
            => ~gif.playing /\ ~gif.loopEnabled /\ gif.pc = "idle")
    /\ [](gif.stopCalled => TimedCall /\ gif.playingAtWaitEnd)

\* a 3 ms playback waited for its deadline, was stopped and returned true
C20_Witness ==
    /\ gif.timeMs = [hi |-> 0, lo |-> 3]
    /\ gif.result = "true"
    /\ gif.waited
    /\ gif.ticks >= 3
    /\ gif.stopCalled

\* playGifFullScreen was called, begin succeeded and playOne failed
FailedStartStep ==
    \E timeMs \in GifDurations, startMs \in GifStartTimes,
       st \in StopOutcomes, u \in UpdateOutcomes :
        PlayGifCall(timeMs, startMs, TRUE, FALSE, st, u)

\* C21: a playGifFullScreen call whose playOne fails returns false and leaves
\* the loop-enabled setting and the playing state of the decoder as they were
\* before the call.
C21_FailedStartLeavesSession ==
    [][FailedStartStep =>
          /\ gif'.result = "false"
          /\ gif'.loopEnabled = gif.loopEnabled
          /\ gif'.playing = gif.playing]_vars

\* the levels written to the reset pin, and the electrical bus starts, so far
ResetLevels ==
    LET w == SelectSeq(gpioLog, LAMBDA e : e.by = "reset")
    IN  [i \in 1..Len(w) |-> w[i].level]

BusStarts == SelectSeq(busLog, LAMBDA e : e[1] = "begin")

\* C22: within one init attempt the reset pulse (HIGH, LOW, HIGH) is given
\* once and the electrical bus is started once, and ready is not true before
\* the vendor sequence's endWrite.
C22_LinearInitAttempt ==
    g_lcdInitAttempts = 1 =>
        /\ IsPrefix(ResetLevels, <<"HIGH", "LOW", "HIGH">>)
        /\ Len(BusStarts) <= 1
        /\ g_lcdReady => \E i \in DOMAIN busLog : busLog[i][1] = "endWrite"

ClampedX == Max(0, fnIn.x)

ClampedY == Max(0, fnIn.y)

\* C24: on a ready panel drawTextWrapped raises a negative start X or Y to 0
\* and draws from there (the cleared box and the first cursor are at the
\* clamped position, every cursor at the clamped X); with the start X at or
\* beyond the screen width, or the start Y at or beyond the screen height, it
\* makes no call on the panel at all: no write, no text size, colour or
\* cursor.
C24_ClampAndReject ==
    (TextDrawn /\ isReady) =>
        /\ (ClampedX >= LCD_W \/ ClampedY >= LCD_H) => fnOut.ops = <<>>
        /\ (ClampedX < LCD_W /\ ClampedY < LCD_H /\ fnIn.textSize > 0) =>
              /\ OpsOf("setCursor") # <<>>
              /\ OpsOf("setCursor")[1].y = ClampedY
              /\ \A i \in DOMAIN OpsOf("setCursor") : OpsOf("setCursor")[i].x = ClampedX
              /\ \A i \in DOMAIN OpsOf("fillRect") :
                    /\ OpsOf("fillRect")[i].x = ClampedX
                    /\ OpsOf("fillRect")[i].y = ClampedY
                    /\ OpsOf("fillRect")[i].w = LCD_W - ClampedX

\* a text was drawn from (-5, -5) with the background cleared
C24_Witness ==
    /\ TextDrawn
    /\ isReady
    /\ fnIn.x < 0 /\ fnIn.y < 0 /\ fnIn.clearBg
    /\ Len(OpsOf("print")) = 3
    /\ fnOut.ops[1].op = "fillRect"
    /\ fnOut.ops[1].x = 0 /\ fnOut.ops[1].y = 0

\* the two rectangles share no pixel row
Disjoint(a, b) == a.y + a.h <= b.y \/ b.y + b.h <= a.y

\* the rectangle lies inside a screen of the given size
InsideScreen(r, width, height) ==
    /\ r.x >= 0 /\ r.y >= 0 /\ r.w >= 0 /\ r.h >= 0
    /\ r.x + r.w <= width
    /\ r.y + r.h <= height

\* status bar, body and footer tile the screen from top to bottom
Tiles(status, body, footer, width, height) ==
    /\ Disjoint(status, body) /\ Disjoint(body, footer) /\ Disjoint(status, footer)
    /\ InsideScreen(status, width, height)
    /\ InsideScreen(body, width, height)
    /\ InsideScreen(footer, width, height)
    /\ status.h + body.h + footer.h = height
    /\ body.y = status.h
    /\ footer.y = body.y + body.h

\* C26 as stated: for every screen height h > 0 the status bar, the body and
\* the footer are pairwise non-overlapping, lie inside the screen and their
\* heights sum to h, with body.y = status.h and footer.y = body.y + body.h.
C26_RegionsTileEveryHeight ==
    RegionCalled("getBodyRect") =>
        Tiles(getStatusBarRect(fnIn.width, fnIn.height), fnOut.rect,
              getFooterRect(fnIn.width, fnIn.height), fnIn.width, fnIn.height)

\* C26 amended: the three rectangles always lie inside the screen; from the
\* height 134 = 64 + 70 on they tile it; below 134 the body is empty, the
\* heights of status bar and footer sum to more than h and the two overlap.
C26_RegionsTileFrom134 ==
    RegionCalled("getBodyRect") =>
        LET w == fnIn.width
            h == fnIn.height
            status == getStatusBarRect(w, h)
            footer == getFooterRect(w, h)
            body == fnOut.rect
        IN  /\ InsideScreen(status, w, h)
            /\ InsideScreen(body, w, h)
            /\ InsideScreen(footer, w, h)
            /\ body.y = status.h
            /\ h >= UI_STATUS_BAR_HEIGHT + UI_FOOTER_HEIGHT
                  => Tiles(status, body, footer, w, h)
            /\ h < UI_STATUS_BAR_HEIGHT + UI_FOOTER_HEIGHT
                  => /\ body.h = 0
                     /\ status.h + footer.h > h
                     /\ ~Disjoint(status, footer)

\* the body of a 240x135 screen was computed: one row between bar and footer
C26_Witness ==
    /\ RegionCalled("getBodyRect")
    /\ fnIn.width = 240
    /\ fnIn.height = 135
    /\ fnOut.rect = [x |-> 0, y |-> 64, w |-> 240, h |-> 1]

DeadlineTested == fnOut # NoFn /\ fnOut.fn = "deadline"

\* 2^31
Half32 == [hi |-> 32768, lo |-> 0]

\* C27: with 0 < durationMs < 2^31 the deadline test of the bounded wait is
\* true exactly while fewer than durationMs milliseconds have elapsed since
\* the start, also when start + durationMs or the millisecond counter wraps
\* modulo 2^32; the elapsed times are those a test of the loop can see, up to
\* 2^31 ms past the deadline.
C27_DeadlineTest ==
    (/\ DeadlineTested
     /\ Lt32(Zero32, fnIn.timeMs) /\ Lt32(fnIn.timeMs, Half32)
     /\ Lt32(fnIn.elapsedMs, Add32(fnIn.timeMs, Half32)))
        => (fnOut.ahead <=> Lt32(fnIn.elapsedMs, fnIn.timeMs))

\* a 3 ms playback started 2 ms before the counter wraps: after 2 ms the
\* counter reads 0, the deadline reads 1 and is still ahead
C27_Witness ==
    /\ DeadlineTested
    /\ fnIn.startMs = [hi |-> 65535, lo |-> 65534]
    /\ fnIn.timeMs = [hi |-> 0, lo |-> 3]
    /\ fnIn.elapsedMs = [hi |-> 0, lo |-> 2]
    /\ fnOut.now = Zero32
    /\ fnOut.endMs = [hi |-> 0, lo |-> 1]
    /\ fnOut.ahead

BatchSent == fnOut # NoFn /\ fnOut.fn = "batch" /\ fnOut.sent

\* C25: the batch endpoint applies its entries in array order, one Display
\* Manager call per recognised entry, each the call the single-command
\* endpoint of that type makes for the same object (omitted fields take the
\* same defaults), and the processed count is the number of entries.
C25_BatchMatchesSingle ==
    BatchSent =>
        /\ fnOut.processed = Len(fnIn.commands)
        /\ fnOut.calls =
              Flatten([i \in 1..Len(fnIn.commands) |-> SingleCall(fnIn.commands[i])])

OtaFinished == fnOut.fn = "ota" /\ fnOut.report # "none" /\ fnOut.phase = "idle"

\* C28: the finish handler of a firmware update restarts the device only if
\* the same request had an upload in which Update.begin succeeded, every
\* Update.write wrote its full chunk and Update.end(true) succeeded; after a
\* failure, an abort or a request without upload events it reports an error
\* and does not restart; and once an error is recorded no Update.write and no
\* Update.end(true) is called in that upload.
C28_RestartOnlyAfterGoodUpload ==
    fnOut.fn = "ota" =>
        /\ \A i \in DOMAIN fnOut.updateCalls :
              fnOut.updateCalls[i].call \in {"write", "end(true)"}
                  => ~fnOut.updateCalls[i].otaError
        /\ OtaFinished =>
              /\ fnOut.restarted <=>
                    (fnOut.hadUpload /\ fnOut.began /\ fnOut.chunksOk /\ fnOut.ended)
              /\ ~fnOut.restarted => fnOut.report = "Error"

GifUploadAnswered == fnOut.fn = "gifUpload" /\ fnOut.result # "none"

\* C29: for every sequence START, WRITE*, END | ABORTED of GIF upload events
\* the result is "success" only if the target file was opened and every chunk
\* was written completely, and after an upload answered "error" no partially
\* written file remains at the target path.
C29_GifUploadResult ==
    GifUploadAnswered =>
        /\ fnOut.result = "success" => (fnOut.opened /\ fnOut.chunksOk)
        /\ fnOut.result = "error" => fnOut.file # "partial"

\* the device booted after a save that succeeded
ConfigReloaded == fnOut.fn = "config" /\ fnOut.reloaded

\* C30: a successful save followed by a load in a fresh ConfigManager gives
\* every field that load reads (the Wi-Fi credentials and the lcd_* fields) the
\* value it had when it was saved, so that saving Wi-Fi credentials does not
\* change the panel configuration of the next boot.
C30_SaveLoadRoundTrip ==
    ConfigReloaded =>
        [ssid |-> fnOut.ssid, password |-> fnOut.password, lcd |-> cfg] = fnOut.atSave

====
